---- MODULE Spec2Model ----
(***************************************************************************)
(* tino: a process-1 supervisor.  The model follows                        *)
(* src/src/platform/unix/mod.rs (run_impl, supervise_child,                *)
(* handle_sigchld, compute_exit_code, wait_for_children) together with     *)
(* src/src/platform/unix/signals.rs (setup_signal_delivery, send_signal)   *)
(* and src/src/platform/unix/child.rs (configure_prctl, start_session,     *)
(* prepare_command, spawn_child, report_exec_failure,                      *)
(* manage_process_group).                                                  *)
(* The kernel (signal queue of the signal fd, process table, clock) is     *)
(* the environment.  One unit of model time is 10 ms, the sleep quantum    *)
(* of wait_for_children.                                                   *)
(***************************************************************************)
EXTENDS Integers, Sequences, FiniteSets, TLC

\* ------------------------------------------------------------------ bounds
\* how far the clock runs past an armed deadline
MaxTime == 2
\* forwarded signals delivered to the supervisor in one run
MaxDrained == 2
\* orphaned descendants reparented to the supervisor in one run
MaxOthers == 1

\* ------------------------------------------------------- signal numbers
SIGHUP == 1
SIGINT == 2
SIGQUIT == 3
SIGKILL == 9
SIGUSR1 == 10
SIGUSR2 == 12
SIGTERM == 15
SIGCHLD == 17
SIGCONT == 18
SIGTTIN == 21
SIGTTOU == 22
SIGWINCH == 28

\* FORWARDED_SIGNAL_NAMES resolved through the signal table.
FORWARDED_SIGNALS ==
    {SIGHUP, SIGINT, SIGQUIT, SIGTERM, SIGUSR1, SIGUSR2, SIGWINCH, SIGCONT,
     SIGTTIN, SIGTTOU}

\* A block set that leaves SIGCHLD out.
TrapSetWithoutChld == FORWARDED_SIGNALS

\* The set setup_signal_delivery blocks (`block`).
TrapSet == FORWARDED_SIGNALS \cup {SIGCHLD}

\* A signal fd opened on the forwarded signals only.
SfdSetForwardedOnly == FORWARDED_SIGNALS

\* The set the signal fd is opened with (`sfd_set`).
SfdSet == FORWARDED_SIGNALS \cup {SIGCHLD}

\* The forwarded signals the environment delivers to the supervisor: a
\* termination intent and a signal that is only forwarded.
ExtSignals == {SIGTERM, SIGCONT}

\* The grace periods (-t) the runs are started with, in time units.
GraceChoices == {0, 1}

\* thread::sleep(remaining.min(10 ms)) in wait_for_children: one time unit.
SleepQuantum == 1

\* ----------------------------------------------------------- Option<T>
None == <<>>
Some(v) == <<v>>
IsSome(o) == o # <<>>
IsNone(o) == o = <<>>
Unwrap(o) == o[1]

Max(a, b) == IF a >= b THEN a ELSE b
Min(a, b) == IF a <= b THEN a ELSE b

\* ------------------------------------------------------------- strings
\* A string is the sequence of its characters.
Lowers == <<"a", "b", "c", "d", "e", "f", "g", "h", "i", "j", "k", "l", "m",
            "n", "o", "p", "q", "r", "s", "t", "u", "v", "w", "x", "y", "z">>
Uppers == <<"A", "B", "C", "D", "E", "F", "G", "H", "I", "J", "K", "L", "M",
            "N", "O", "P", "Q", "R", "S", "T", "U", "V", "W", "X", "Y", "Z">>
DigitChars == <<"0", "1", "2", "3", "4", "5", "6", "7", "8", "9">>

IsSpace(c) == c \in {" ", "\t", "\n"}

\* char::to_ascii_uppercase and char::to_ascii_lowercase
UpperChar(c) ==
    IF \E i \in 1..26 : Lowers[i] = c THEN Uppers[CHOOSE i \in 1..26 : Lowers[i] = c] ELSE c
LowerChar(c) ==
    IF \E i \in 1..26 : Uppers[i] = c THEN Lowers[CHOOSE i \in 1..26 : Uppers[i] = c] ELSE c

to_ascii_uppercase(str) == [i \in 1..Len(str) |-> UpperChar(str[i])]

\* str::eq_ignore_ascii_case
eq_ignore_ascii_case(a, b) ==
    Len(a) = Len(b) /\ \A i \in 1..Len(a) : LowerChar(a[i]) = LowerChar(b[i])

\* str::trim: the whitespace at both ends is dropped.
RECURSIVE trim_start(_)
trim_start(str) ==
    IF str # <<>> /\ IsSpace(Head(str)) THEN trim_start(Tail(str)) ELSE str

RECURSIVE trim_end(_)
trim_end(str) ==
    IF str # <<>> /\ IsSpace(str[Len(str)])
    THEN trim_end(SubSeq(str, 1, Len(str) - 1))
    ELSE str

trim(str) == trim_end(trim_start(str))

\* str::strip_prefix(..).unwrap_or(str)
strip_prefix_or(str, prefix) ==
    IF Len(str) >= Len(prefix) /\ SubSeq(str, 1, Len(prefix)) = prefix
    THEN SubSeq(str, Len(prefix) + 1, Len(str))
    ELSE str

\* str::parse::<u8>: an optional '+', then decimal digits, at most 255.
DigitValue(c) == (CHOOSE i \in 1..10 : DigitChars[i] = c) - 1
IsDigit(c) == \E i \in 1..10 : DigitChars[i] = c

RECURSIVE DecimalValue(_)
DecimalValue(ds) ==
    IF ds = <<>> THEN 0
    ELSE 10 * DecimalValue(SubSeq(ds, 1, Len(ds) - 1)) + DigitValue(ds[Len(ds)])

Ok(v) == [ok |-> TRUE, val |-> v]
Err(e) == [ok |-> FALSE, err |-> e]

parse_u8(str) ==
    LET ds == IF str # <<>> /\ Head(str) = "+" THEN Tail(str) ELSE str
    IN  IF str = <<>> THEN Err("cannot parse integer from empty string")
        ELSE IF ds = <<>> \/ \E i \in 1..Len(ds) : ~IsDigit(ds[i])
        THEN Err("invalid digit found in string")
        ELSE IF DecimalValue(ds) > 255 THEN Err("number too large to fit in target type")
        ELSE Ok(DecimalValue(ds))

\* ------------------------------------------------------ signal catalog
\* signal_spec!: the names, and the signals at the same positions.
SIGNAL_NAMES ==
    <<<<"H", "U", "P">>,
      <<"I", "N", "T">>,
      <<"Q", "U", "I", "T">>,
      <<"I", "L", "L">>,
      <<"T", "R", "A", "P">>,
      <<"A", "B", "R", "T">>,
      <<"B", "U", "S">>,
      <<"F", "P", "E">>,
      <<"K", "I", "L", "L">>,
      <<"U", "S", "R", "1">>,
      <<"S", "E", "G", "V">>,
      <<"U", "S", "R", "2">>,
      <<"P", "I", "P", "E">>,
      <<"A", "L", "R", "M">>,
      <<"T", "E", "R", "M">>,
      <<"C", "O", "N", "T">>,
      <<"W", "I", "N", "C", "H">>,
      <<"T", "T", "I", "N">>,
      <<"T", "T", "O", "U">>>>

SIGNAL_VALUES ==
    <<SIGHUP, SIGINT, SIGQUIT, 4, 5, 6, 7, 8, SIGKILL, SIGUSR1, 11, SIGUSR2, 13, 14,
      SIGTERM, SIGCONT, SIGWINCH, SIGTTIN, SIGTTOU>>

SigPrefix == <<"S", "I", "G">>

\* canonical_signal_name without the removal of the SIG prefix.
canonical_signal_name_bare(raw) ==
    LET trimmed == trim(raw)
        upper == to_ascii_uppercase(trimmed)
    IN  IF trimmed = <<>> THEN None
        ELSE IF \E i \in 1..Len(SIGNAL_NAMES) : SIGNAL_NAMES[i] = upper
        THEN Some(upper)
        ELSE None

\* canonical_signal_name: trim, upper case, drop one SIG prefix, look up.
canonical_signal_name(raw) ==
    LET trimmed == trim(raw)
        upper == to_ascii_uppercase(trimmed)
        candidate == strip_prefix_or(upper, SigPrefix)
    IN  IF trimmed = <<>> THEN None
        ELSE IF \E i \in 1..Len(SIGNAL_NAMES) : SIGNAL_NAMES[i] = candidate
        THEN Some(candidate)
        ELSE None

\* signal_from_canonical: the signal at the position of the name.
signal_from_canonical(name) ==
    IF \E i \in 1..Len(SIGNAL_NAMES) : SIGNAL_NAMES[i] = name
    THEN Some(SIGNAL_VALUES[CHOOSE i \in 1..Len(SIGNAL_NAMES) : SIGNAL_NAMES[i] = name])
    ELSE None

\* signal_from_str, which signal_by_name calls.
signal_from_str(raw) ==
    LET name == canonical_signal_name(raw)
    IN  IF IsSome(name) THEN signal_from_canonical(Unwrap(name)) ELSE None

signal_by_name(name) == signal_from_str(name)

\* parse_signal that returns the canonical token as it is.
parse_signal_bare(raw) ==
    LET trimmed == trim(raw)
        name == canonical_signal_name(trimmed)
    IN  IF trimmed = <<>> THEN Err("signal name cannot be empty")
        ELSE IF IsSome(name) THEN Ok(Unwrap(name))
        ELSE Err("invalid signal")

\* parse_signal, the value parser of -p.
parse_signal(raw) ==
    LET trimmed == trim(raw)
        name == canonical_signal_name(trimmed)
    IN  IF trimmed = <<>> THEN Err("signal name cannot be empty")
        ELSE IF IsSome(name) THEN Ok(SigPrefix \o Unwrap(name))
        ELSE Err("invalid signal")

\* ------------------------------------------------- environment overrides
\* interpret_env_flag comparing the value as it was given.
interpret_env_flag_untrimmed(raw) ==
    IF raw = <<>> THEN Err(raw)
    ELSE IF \/ raw = <<"1">>
            \/ eq_ignore_ascii_case(raw, <<"t", "r", "u", "e">>)
            \/ eq_ignore_ascii_case(raw, <<"y", "e", "s">>)
            \/ eq_ignore_ascii_case(raw, <<"o", "n">>)
    THEN Ok(TRUE)
    ELSE IF \/ raw = <<"0">>
            \/ eq_ignore_ascii_case(raw, <<"f", "a", "l", "s", "e">>)
            \/ eq_ignore_ascii_case(raw, <<"n", "o">>)
            \/ eq_ignore_ascii_case(raw, <<"o", "f", "f">>)
    THEN Ok(FALSE)
    ELSE Err(raw)

\* interpret_env_flag: Ok(flag) or Err(the value as it was given).
interpret_env_flag(raw) ==
    LET trimmed == trim(raw)
    IN  IF trimmed = <<>> THEN Err(raw)
        ELSE IF \/ trimmed = <<"1">>
                \/ eq_ignore_ascii_case(trimmed, <<"t", "r", "u", "e">>)
                \/ eq_ignore_ascii_case(trimmed, <<"y", "e", "s">>)
                \/ eq_ignore_ascii_case(trimmed, <<"o", "n">>)
        THEN Ok(TRUE)
        ELSE IF \/ trimmed = <<"0">>
                \/ eq_ignore_ascii_case(trimmed, <<"f", "a", "l", "s", "e">>)
                \/ eq_ignore_ascii_case(trimmed, <<"n", "o">>)
                \/ eq_ignore_ascii_case(trimmed, <<"o", "f", "f">>)
        THEN Ok(FALSE)
        ELSE Err(raw)

\* EnvOverrideLog::default()
NoEnvLog ==
    [subreaper_env |-> None, pgroup_env |-> None, verbosity_env |-> None,
     invalid_flags |-> <<>>, verbosity_error |-> None]

\* The flag and the log after one boolean override.
FlagAfter(env, flag) ==
    IF IsSome(env) /\ interpret_env_flag(Unwrap(env)).ok
    THEN interpret_env_flag(Unwrap(env)).val
    ELSE flag

LoggedFlag(env) ==
    IF IsSome(env) /\ interpret_env_flag(Unwrap(env)).ok
    THEN Some(interpret_env_flag(Unwrap(env)).val)
    ELSE None

InvalidFlag(name, env) ==
    IF IsSome(env) /\ ~interpret_env_flag(Unwrap(env)).ok
    THEN << <<name, interpret_env_flag(Unwrap(env)).err>> >>
    ELSE <<>>

\* Whether TINI_VERBOSITY is looked at, and what it parses to.
VerbosityRead(count, env) == count = 0 /\ IsSome(env)
VerbosityParsed(env) == parse_u8(trim(Unwrap(env)))

\* apply_env_overrides: the flags of the Cli after it, and the log returned.
apply_env_overrides(sub, sub_env, pg, pg_env, count, v_env) ==
    [subreaper |-> FlagAfter(sub_env, sub),
     pgroup_kill |-> FlagAfter(pg_env, pg),
     verbosity |->
        IF VerbosityRead(count, v_env) /\ VerbosityParsed(v_env).ok
        THEN Min(VerbosityParsed(v_env).val, 3)
        ELSE count,
     log |->
        [subreaper_env |-> LoggedFlag(sub_env),
         pgroup_env |-> LoggedFlag(pg_env),
         verbosity_env |->
            IF VerbosityRead(count, v_env) /\ VerbosityParsed(v_env).ok
            THEN Some(Min(VerbosityParsed(v_env).val, 3))
            ELSE None,
         invalid_flags |->
            InvalidFlag("TINI_SUBREAPER", sub_env) \o InvalidFlag("TINI_KILL_PROCESS_GROUP", pg_env),
         verbosity_error |->
            IF VerbosityRead(count, v_env) /\ ~VerbosityParsed(v_env).ok
            THEN Some(<<Unwrap(v_env), VerbosityParsed(v_env).err>>)
            ELSE None]]

\* ------------------------------------------------ wait statuses and pids
ChildPid == 2
OtherPid(i) == ChildPid + i

Exited(c) == [kind |-> "exited", val |-> c]
Signaled(s) == [kind |-> "signaled", val |-> s]
NoStatus == [kind |-> "none", val |-> 0]

\* What the main child may do by itself: exit with a code, or die of a signal
\* somebody sent it.
ExitCodes == {3}
DeathSignals == {SIGTERM}
ChildStatuses == {Exited(c) : c \in ExitCodes} \cup {Signaled(s) : s \in DeathSignals}
\* The exit status of every other descendant.
OtherStatus == Exited(5)

\* The remap_exit sets (-e CODE) the runs are started with.
RemapChoices == {{}, {3}}

\* The command lines the runs are started with: an argument is a sequence of
\* bytes, 0 being NUL.
PlainCmd == << <<47, 115>> >>
CmdChoices == {PlainCmd, << <<47, 115>>, <<97, 0, 98>> >>, << <<0>>, <<97>> >>}

\* The parent-death signals (-p) the runs are started with.
PdeathChoices == {None, Some(<<"S", "I", "G", "U", "S", "R", "1">>)}

\* errno of the child's execvp, 0 when it succeeds: ENOENT, EACCES.
ExecErrnos == {0, 2, 13}

VARIABLES
    \* configuration (Cli), fixed after Init
    pgroup_kill, grace_ms, expect_zero,
    \* configuration read before the fork, and the outcome of execvp
    subreaper, pdeath, cmd, exec_errno,
    \* signal masks, the signal fd, the prctl outcome, the error run_impl
    \* returns, the child's standard error
    sup_mask, sfd_set, child_mask, prctl_outcome, prctl_res, error, stderr,
    \* ptrace stop of the main child not yet reported by waitpid
    stop_event,
    \* supervisor
    pc, use_pgroup, main_exit, shutdown_deadline, sigkill_sent,
    poll_timeout, poll_start, final_exit, wfc_round, wfc_start, wfc_wake,
    exit_code,
    \* kernel
    now, pending, child, others,
    \* history
    n_forwarded, n_sent, last_send, first_forward, first_deadline,
    n_reaped, setpgid_res,
    \* the build, the command line and the environment as given, the log of
    \* the overrides, the supervisor's standard output
    debug_assertions, license, pdeath_raw, subreaper_env, pgroup_env, verbosity,
    verbosity_env, env_log, stdout,
    \* the canonical name of the -p value, and the signal the lookup of
    \* configure_prctl found
    canon, pdeath_sig,
    \* -w (Cli::warn_on_reap)
    warn_on_reap,
    \* the host: whether it may refuse the supervisor's kill calls (EPERM),
    \* and whether the forked child is followed step by step up to execvp
    host_refuses, child_steps, child_at,
    \* what the supervisor's last step got from kill and wrote to its log
    last_step

cfgvars == <<pgroup_kill, grace_ms, expect_zero, warn_on_reap>>
hostvars == <<host_refuses, child_steps, child_at>>
supvars == <<pc, use_pgroup, main_exit, shutdown_deadline, sigkill_sent,
             poll_timeout, poll_start, final_exit, wfc_round, wfc_start,
             wfc_wake, exit_code>>
kernvars == <<now, pending, child, others>>
histvars == <<n_forwarded, n_sent, last_send, first_forward, first_deadline>>
bootvars == <<subreaper, pdeath, cmd, exec_errno, sup_mask, sfd_set, child_mask,
              prctl_outcome, prctl_res, error, stderr>>
tracevars == <<stop_event, n_reaped, setpgid_res>>
clivars == <<debug_assertions, license, pdeath_raw, subreaper_env, pgroup_env, verbosity,
             verbosity_env, env_log, stdout>>
sigvars == <<canon, pdeath_sig>>
vars == <<cfgvars, supvars, kernvars, histvars, bootvars, tracevars, clivars, sigvars,
          hostvars, last_step>>

Slots == 1..MaxOthers

NoOther == [st |-> "none", pid |-> 0, ingroup |-> FALSE, killed |-> FALSE]

\* PrctlOutcome::default()
NoOutcome == [subreaper_enabled |-> FALSE, pdeath_set |-> FALSE]

\* A step of the supervisor that called no kill and logged nothing, and one
\* that logged a line.
NoStep == [kill |-> "none", log |-> None, poll |-> "none"]
Logged(line) == [kill |-> "none", log |-> Some(line), poll |-> "none"]

\* What does not depend on the command line when run_impl is entered.
InitRest ==
    /\ sup_mask = {}
    /\ sfd_set = None
    /\ child_mask = {}
    /\ prctl_outcome = NoOutcome
    /\ prctl_res = [pd |-> "none", sub |-> "none"]
    /\ error = None
    /\ stderr = <<>>
    /\ stop_event = "none"
    /\ n_reaped = 0
    /\ setpgid_res = "none"
    /\ last_step = NoStep

\* The command line is parsed and run has applied the environment: no
\* override was given.
InitParsed ==
    /\ debug_assertions = FALSE
    /\ license = FALSE
    /\ pdeath_raw = None
    /\ subreaper_env = None
    /\ pgroup_env = None
    /\ verbosity = 0
    /\ verbosity_env = None
    /\ env_log = NoEnvLog
    /\ stdout = <<>>
    /\ canon = None
    /\ pdeath_sig = None

\* No -w; the host refuses no kill; the child's steps before execvp are
\* taken together with the fork.
InitHost ==
    /\ warn_on_reap = FALSE
    /\ host_refuses = FALSE
    /\ child_steps = FALSE
    /\ child_at = "none"

\* The state at the entry of run_impl, the options -w and the host apart.
InitBody ==
    /\ pgroup_kill \in BOOLEAN
    /\ grace_ms \in GraceChoices
    /\ expect_zero \in RemapChoices
    /\ subreaper = FALSE
    /\ pdeath = None
    /\ cmd = PlainCmd
    /\ exec_errno = 0
    /\ InitRest
    /\ InitParsed
    /\ pc = "prctl"
    /\ use_pgroup = FALSE
    /\ main_exit = None
    /\ shutdown_deadline = None
    /\ sigkill_sent = FALSE
    /\ poll_timeout = None
    /\ poll_start = 0
    /\ final_exit = None
    /\ wfc_round = 0
    /\ wfc_start = 0
    /\ wfc_wake = 0
    /\ exit_code = None
    /\ now = 0
    /\ pending = {}
    /\ child = [st |-> "unborn", status |-> NoStatus, leader |-> FALSE, killed |-> FALSE]
    /\ others = [i \in Slots |-> NoOther]
    /\ n_forwarded = 0
    /\ n_sent = 0
    /\ last_send = None
    /\ first_forward = None
    /\ first_deadline = None

Init == InitBody /\ InitHost


\* A signal raised for the supervisor becomes a record of the signal fd when
\* it is blocked and the fd was opened on it; SIGCHLD raised otherwise meets
\* its default disposition and is dropped.
Queued(sig) ==
    IF sig \in sup_mask /\ IsSome(sfd_set) /\ sig \in Unwrap(sfd_set) THEN {sig} ELSE {}

\* ------------------------------------------------------------ the kernel
\* Children of the supervisor that have terminated and are not yet reaped.
Zombies ==
    (IF child.st = "zombie" THEN {0} ELSE {}) \cup {i \in Slots : others[i].st = "zombie"}

\* waitpid(-1, WNOHANG) fails with ECHILD when the caller has no child at all.
HasChildren ==
    \/ child.st \in {"running", "zombie"}
    \/ \E i \in Slots : others[i].st \in {"alive", "zombie"}

ZombiePid(z) == IF z = 0 THEN ChildPid ELSE others[z].pid
ZombieStatus(z) == IF z = 0 THEN child.status ELSE OtherStatus

\* The process table after waitpid has consumed zombie z.
ChildAfterReap(z) == IF z = 0 THEN [child EXCEPT !.st = "reaped"] ELSE child
OthersAfterReap(z) == IF z = 0 THEN others ELSE [others EXCEPT ![z].st = "reaped"]

\* kill(2): SIGKILL cannot be caught, every other signal is left to the
\* receiver (which may terminate at any time anyway).
Hit(p, sig) == IF sig = SIGKILL THEN [p EXCEPT !.killed = TRUE] ELSE p

\* killpg(child, sig) reaches the members of the group led by child_pid,
\* kill(child, sig) the process that carries child_pid; with no such process
\* the call fails with ESRCH and changes nothing.
ChildAfterSend(pgid, sig) ==
    IF child.st = "running" /\ (pgid => child.leader) THEN Hit(child, sig) ELSE child

OthersAfterSend(pgid, sig) ==
    [i \in Slots |->
        IF /\ others[i].st = "alive"
           /\ IF pgid THEN others[i].ingroup ELSE others[i].pid = ChildPid
        THEN Hit(others[i], sig)
        ELSE others[i]]

\* Instants are compared with each other only, so the clock is followed only
\* while the supervisor has a timer running: up to the instant it waits for,
\* and past an armed deadline up to MaxTime.
InLoop == pc \in {"poll", "drain", "reap", "deadline"}

DeadlineRunning ==
    InLoop /\ IsSome(shutdown_deadline) /\ ~sigkill_sent /\ IsNone(main_exit)

TimerPending ==
    \/ DeadlineRunning /\ now < Unwrap(shutdown_deadline)
    \/ pc = "wfc" /\ now < wfc_start + grace_ms
    \/ pc = "wfc_sleep" /\ now < wfc_wake

Running == pc \notin {"done", "fatal"}

Tick ==
    /\ TimerPending \/ (DeadlineRunning /\ now < MaxTime)
    /\ now' = now + 1
    /\ UNCHANGED <<cfgvars, hostvars, last_step, clivars, sigvars, bootvars, tracevars, supvars, pending, child, others, histvars>>

\* A signal of the trap set is sent to the supervisor: it is blocked, so it
\* becomes pending on the signal fd (a standard signal is queued once).  The
\* signal fd is not read again once the loop is left.
ExternalSignal ==
    /\ pc \in {"spawn", "pgroup", "pgroup_ret"} \/ InLoop
    /\ IsSome(sfd_set)
    /\ n_forwarded + Cardinality(pending \ {SIGCHLD}) < MaxDrained
    /\ \E s \in ExtSignals \cap sup_mask \cap Unwrap(sfd_set) : pending' = pending \cup {s}
    /\ UNCHANGED <<cfgvars, hostvars, last_step, clivars, sigvars, bootvars, tracevars, supvars, now, child, others, histvars>>

\* child_write_errno with the digits in the order the loop produces them.
child_write_errno_reversed(value) ==
    LET RECURSIVE Rev(_)
        Rev(v) == IF v = 0 THEN <<>> ELSE <<48 + (v % 10)>> \o Rev(v \div 10)
    IN  IF value = 0 THEN <<48>> ELSE Rev(value)

\* child_write_errno: the decimal digits of errno, filled in from the end of
\* the buffer, written as bytes (b'0' is 48).
child_write_errno(value) ==
    LET RECURSIVE Digits(_)
        Digits(v) == IF v = 0 THEN <<>> ELSE Append(Digits(v \div 10), 48 + (v % 10))
    IN  IF value = 0 THEN <<48>> ELSE Digits(value)

\* report_exec_failure: the writes to standard error, one element per write.
report_exec_failure(program, errno) ==
    <<"tino: execvp failed for ", program, " (errno ", child_write_errno(errno), ")", "\n">>

\* The statuses the main child may terminate with: 127 after a failed
\* execvp, death by the SIGKILL it was sent, or whatever the command does.
TerminationStatuses ==
    IF exec_errno # 0 THEN {Exited(127)}
    ELSE IF child.killed THEN {Signaled(SIGKILL)}
    ELSE ChildStatuses

\* The main child terminates.  A child in a ptrace stop only dies of SIGKILL.
ChildTerminates ==
    /\ child.st = "running"
    /\ child_at = "cmd" \/ child.killed
    /\ stop_event = "none" \/ child.killed
    /\ \E s \in TerminationStatuses :
          child' = [child EXCEPT !.st = "zombie", !.status = s]
    /\ stderr' = IF exec_errno # 0 THEN report_exec_failure(cmd[1], exec_errno) ELSE stderr
    /\ stop_event' = "none"
    /\ pending' = pending \cup Queued(SIGCHLD)
    /\ UNCHANGED <<cfgvars, hostvars, last_step, clivars, sigvars, subreaper, pdeath, cmd, exec_errno, sup_mask, sfd_set,
                   child_mask, prctl_outcome, prctl_res, error, n_reaped, setpgid_res,
                   supvars, now, others, histvars>>

\* The main child, which made its parent its tracer (PTRACE_TRACEME), enters
\* a ptrace stop: waitpid reports it even without WUNTRACED.
ChildStops ==
    /\ child.st = "running"
    /\ ~child.killed
    /\ exec_errno = 0
    /\ stop_event = "none"
    /\ stop_event' = "pending"
    /\ pending' = pending \cup Queued(SIGCHLD)
    /\ UNCHANGED <<cfgvars, hostvars, last_step, clivars, sigvars, bootvars, n_reaped, setpgid_res, supvars, now, child,
                   others, histvars>>

\* An orphaned descendant with pid p is reparented to the supervisor; it is
\* or is not a member of the main child's process group.
AdoptAs(i, p) ==
    /\ Running
    /\ child.st # "unborn"
    /\ others[i].st = "none"
    /\ \A j \in 1..(i - 1) : others[j].st # "none"
    /\ \E g \in BOOLEAN :
          others' = [others EXCEPT ![i] =
              [st |-> "alive", pid |-> p, ingroup |-> g, killed |-> FALSE]]
    /\ UNCHANGED <<cfgvars, hostvars, last_step, clivars, sigvars, bootvars, tracevars, supvars, now, pending, child, histvars>>

Adopt == \E i \in Slots : AdoptAs(i, OtherPid(i))

\* The kernel hands the pid of the reaped main child to a new process, which
\* is then orphaned and reparented to the supervisor.
AdoptRecycled ==
    /\ child.st = "reaped"
    /\ \A j \in Slots : others[j].pid # ChildPid
    /\ \E i \in Slots : AdoptAs(i, ChildPid)

OtherTerminates ==
    /\ \E i \in Slots :
          /\ others[i].st = "alive"
          /\ others' = [others EXCEPT ![i] =
                [st |-> "zombie", pid |-> others[i].pid, ingroup |-> FALSE, killed |-> FALSE]]
    /\ pending' = pending \cup Queued(SIGCHLD)
    /\ UNCHANGED <<cfgvars, hostvars, last_step, clivars, sigvars, bootvars, tracevars, supvars, now, child, histvars>>

\* -------------------------------------------------------- the supervisor
\* The results of kill(child, sig) and killpg(child, sig): ESRCH when no
\* process carries the pid or is a member of the group (a zombie still
\* does), EPERM when the host refuses the call.
HasTarget(pgid) ==
    IF pgid
    THEN \/ child.st \in {"running", "zombie"} /\ child.leader
         \/ \E i \in Slots : others[i].st \in {"alive", "zombie"} /\ others[i].ingroup
    ELSE \/ child.st \in {"running", "zombie"}
         \/ \E i \in Slots : others[i].st \in {"alive", "zombie"} /\ others[i].pid = ChildPid

SendResults(pgid) ==
    IF ~HasTarget(pgid) THEN {"ESRCH"}
    ELSE IF host_refuses THEN {"ok", "EPERM"}
    ELSE {"ok"}

\* send_signal logging every failure, ESRCH included.
SendLogAll(sig, res) ==
    IF res = "ok" THEN None
    ELSE Some([level |-> "warn", msg |-> "forward failed", arg |-> sig])

\* What send_signal logs on a result: nothing on success and on ESRCH.
SendLog(sig, res) ==
    IF res \in {"ok", "ESRCH"} THEN None
    ELSE Some([level |-> "warn", msg |-> "forward failed", arg |-> sig])

\* send_signal that always uses kill(child, sig).
send_signal_pid_only(pgid, sig, src) ==
    \E res \in SendResults(FALSE) :
        /\ n_sent' = n_sent + 1
        /\ last_send' = Some([sig |-> sig, group |-> FALSE, src |-> src])
        /\ child' = IF res = "ok" THEN ChildAfterSend(FALSE, sig) ELSE child
        /\ others' = IF res = "ok" THEN OthersAfterSend(FALSE, sig) ELSE others
        /\ last_step' = [kill |-> res, log |-> SendLog(sig, res), poll |-> "none"]

\* send_signal: killpg or kill; an error is logged at most, never returned.
send_signal(pgid, sig, src) ==
    \E res \in SendResults(pgid) :
        /\ n_sent' = n_sent + 1
        /\ last_send' = Some([sig |-> sig, group |-> pgid, src |-> src])
        /\ child' = IF res = "ok" THEN ChildAfterSend(pgid, sig) ELSE child
        /\ others' = IF res = "ok" THEN OthersAfterSend(pgid, sig) ELSE others
        /\ last_step' = [kill |-> res, log |-> SendLog(sig, res), poll |-> "none"]

\* A poll timeout that ignores the deadline.
PollTimeoutNever(deadline, killed, exited, t) == None

\* A poll timeout that is still taken from the deadline after the forced kill.
PollTimeoutAfterKill(deadline, killed, exited, t) ==
    IF IsSome(deadline) /\ ~exited
    THEN Some(Max(0, Unwrap(deadline) - t))
    ELSE None

\* The timeout handed to poll: Some(remaining) or None for PollTimeout::NONE.
PollTimeoutAt(deadline, killed, exited, t) ==
    IF IsSome(deadline) /\ ~killed /\ ~exited
    THEN Some(Max(0, Unwrap(deadline) - t))
    ELSE None

\* The top of the loop: the timeout is computed and poll is entered.
EnterPoll(killed) ==
    /\ poll_timeout' = PollTimeoutAt(shutdown_deadline, killed, IsSome(main_exit), now)
    /\ poll_start' = now
    /\ pc' = "poll"

\* ------------------------------------------------------------- run_impl
\* run_impl returns Err: `?` on a failed step.
Fail(context) ==
    /\ pc' = "fatal"
    /\ error' = Some(context)

\* ------------------------------------------------- the command line
\* What the runs of the front end are started with.  A spelling of a token
\* is the token in a letter case, between paddings of whitespace.
Casings == {"upper", "lower", "mixed"}
Paddings == {<<>>, <<" ">>}

InCase(str, casing) ==
    [i \in 1..Len(str) |->
        IF casing = "upper" \/ (casing = "mixed" /\ i % 2 = 1)
        THEN UpperChar(str[i])
        ELSE LowerChar(str[i])]

Spell(str, casing, lpad, rpad) == lpad \o InCase(str, casing) \o rpad

\* -p values: the names of the catalog with and without the prefix, and
\* values that are no name of it.
SignalJunk ==
    {<<>>, <<" ", " ">>, <<"N", "O", "P", "E">>, <<"S", "I", "G">>,
     <<"S", "I", "G", "S", "I", "G", "T", "E", "R", "M">>,
     <<"S", "I", "G", " ", "T", "E", "R", "M">>, <<"T", "E", "R", " ", "M">>,
     <<"1", "5">>, <<"S", "I", "G", "N", "O", "P", "E">>}

SignalInputs ==
    {[raw |-> Spell(prefix \o SIGNAL_NAMES[i], casing, lpad, rpad), token |-> Some(SIGNAL_NAMES[i])] :
        i \in 1..Len(SIGNAL_NAMES), prefix \in {<<>>, SigPrefix}, casing \in Casings,
        lpad \in Paddings, rpad \in {<<>>, <<"\t", "\n">>}}
    \cup {[raw |-> j, token |-> None] : j \in SignalJunk}

\* Values of TINI_SUBREAPER and TINI_KILL_PROCESS_GROUP, with what they mean.
TrueTokens == {<<"1">>, <<"t", "r", "u", "e">>, <<"y", "e", "s">>, <<"o", "n">>}
FalseTokens == {<<"0">>, <<"f", "a", "l", "s", "e">>, <<"n", "o">>, <<"o", "f", "f">>}
FlagJunk ==
    {<<>>, <<" ">>, <<"\t", " ">>, <<"m", "a", "y", "b", "e">>, <<"2">>, <<"1", "0">>,
     <<"t", "r", "u", " ", "e">>, <<"y">>, <<"o", "n", "e">>, <<"0", "f", "f">>}

EnvFlagInputs ==
    {[raw |-> Spell(t, casing, lpad, rpad), means |-> "true"] :
        t \in TrueTokens, casing \in Casings, lpad \in Paddings, rpad \in Paddings}
    \cup {[raw |-> Spell(t, casing, lpad, rpad), means |-> "false"] :
        t \in FalseTokens, casing \in Casings, lpad \in Paddings, rpad \in Paddings}
    \cup {[raw |-> j, means |-> "invalid"] : j \in FlagJunk}

EnvFlagFew ==
    {[raw |-> <<"1">>, means |-> "true"], [raw |-> <<" ", "O", "f", "f">>, means |-> "false"],
     [raw |-> <<"2">>, means |-> "invalid"]}

\* Values of TINI_VERBOSITY: a level, an integer that is none, or no integer.
VerbosityInputs ==
    {[raw |-> <<"0">>, kind |-> "level", level |-> 0],
     [raw |-> <<"3">>, kind |-> "level", level |-> 3],
     [raw |-> <<" ", "2", "\n">>, kind |-> "level", level |-> 2],
     [raw |-> <<"1">>, kind |-> "level", level |-> 1],
     [raw |-> <<"4">>, kind |-> "out_of_range", level |-> 4],
     [raw |-> <<"2", "0", "0">>, kind |-> "out_of_range", level |-> 200],
     [raw |-> <<"2", "5", "6">>, kind |-> "out_of_range", level |-> 256],
     [raw |-> <<"-", "1">>, kind |-> "out_of_range", level |-> 0 - 1],
     [raw |-> <<"n", "o", "i", "s", "e">>, kind |-> "non_numeric", level |-> 0],
     [raw |-> <<>>, kind |-> "non_numeric", level |-> 0],
     [raw |-> <<"1", " ", "2">>, kind |-> "non_numeric", level |-> 0]}

\* The -v counts the runs are started with.
VerbosityCounts == {0, 2}

Opt(S) == {None} \cup {Some(x) : x \in S}
RawOf(env) == IF IsSome(env) THEN Some(Unwrap(env).raw) ELSE None

\* What print!("{LICENSE_TEXT}") writes.
LICENSE_TEXT == "MIT License"

\* The catalog applied to the -p value: its canonical name, the canonical
\* name of that name, and the signal signal_from_str finds for the value.
UnitCanonical ==
    /\ pc = "parse"
    /\ IsSome(pdeath_raw)
    /\ IsNone(canon)
    /\ LET first == canonical_signal_name(Unwrap(pdeath_raw).raw)
       IN  canon' = Some([first |-> first,
                          second |-> IF IsSome(first)
                                     THEN canonical_signal_name(Unwrap(first))
                                     ELSE None,
                          sig |-> signal_from_str(Unwrap(pdeath_raw).raw)])
    /\ UNCHANGED <<cfgvars, hostvars, last_step, clivars, pdeath_sig, supvars, kernvars, histvars, bootvars,
                   tracevars>>

\* Cli::parse: the value parser of -p runs on the value given; clap ends
\* the process on its error.
parse_args ==
    /\ pc = "parse"
    /\ IF IsNone(pdeath_raw)
       THEN pdeath' = None /\ pc' = "run"
       ELSE LET parsed == parse_signal(Unwrap(pdeath_raw).raw)
            IN  IF parsed.ok
                THEN pdeath' = Some(parsed.val) /\ pc' = "run"
                ELSE pdeath' = None /\ pc' = "usage"
    /\ UNCHANGED <<cfgvars, hostvars, last_step, clivars, sigvars, subreaper, cmd, exec_errno, sup_mask, sfd_set,
                   child_mask, prctl_outcome, prctl_res, error, stderr, tracevars,
                   use_pgroup, main_exit, shutdown_deadline, sigkill_sent, poll_timeout,
                   poll_start, final_exit, wfc_round, wfc_start, wfc_wake, exit_code,
                   kernvars, histvars>>

\* run with the test of the command before the test of the license flag.
RunBranchCommandFirst(lic, command, dbg) ==
    IF command = <<>> THEN (IF dbg THEN "panic" ELSE "missing")
    ELSE IF lic THEN "license"
    ELSE "run_impl"

\* The way run ends: the license, the debug assertion on the command (in a
\* build with debug assertions), the missing command, or run_impl.
RunBranch(lic, command, dbg) ==
    IF lic THEN "license"
    ELSE IF command = <<>> THEN (IF dbg THEN "panic" ELSE "missing")
    ELSE "run_impl"

\* platform::run
run ==
    /\ pc = "run"
    /\ LET branch == RunBranch(license, cmd, debug_assertions)
           o == apply_env_overrides(subreaper, RawOf(subreaper_env), pgroup_kill,
                                    RawOf(pgroup_env), verbosity, RawOf(verbosity_env))
       IN  /\ IF branch = "license"
              THEN /\ stdout' = Append(stdout, LICENSE_TEXT)
                   /\ exit_code' = Some(0)
                   /\ pc' = "done"
                   /\ UNCHANGED <<subreaper, pgroup_kill, verbosity, env_log, error>>
              ELSE /\ subreaper' = o.subreaper
                   /\ pgroup_kill' = o.pgroup_kill
                   /\ verbosity' = o.verbosity
                   /\ env_log' = o.log
                   /\ UNCHANGED <<stdout, exit_code>>
                   /\ CASE branch = "panic" -> pc' = "panic" /\ UNCHANGED error
                        [] branch = "missing" -> Fail("missing CMD (use --help)")
                        [] OTHER -> pc' = "prctl" /\ UNCHANGED error
    /\ UNCHANGED <<grace_ms, expect_zero, warn_on_reap, hostvars, last_step, sigvars, debug_assertions, license, pdeath_raw,
                   subreaper_env, pgroup_env, verbosity_env, pdeath, cmd, exec_errno,
                   sup_mask, sfd_set, child_mask, prctl_outcome, prctl_res, stderr,
                   tracevars, use_pgroup, main_exit, shutdown_deadline, sigkill_sent,
                   poll_timeout, poll_start, final_exit, wfc_round, wfc_start, wfc_wake,
                   kernvars, histvars>>

\* What the two prctl calls may answer.
PdeathResults == IF IsSome(pdeath) THEN {"ok", "EPERM"} ELSE {"none"}
SubreaperResults == IF subreaper THEN {"ok", "EPERM", "EINVAL"} ELSE {"none"}

\* A subreaper failure that is returned whatever its errno.
SubreaperAlwaysFatal(res) == res \notin {"ok", "none"}

\* Whether the answer to PR_SET_CHILD_SUBREAPER makes configure_prctl bail.
SubreaperFatal(res) == res \notin {"ok", "none", "EPERM"}

\* configure_prctl: the parent-death signal first, then the subreaper flag.
configure_prctl ==
    /\ pc = "prctl"
    /\ pdeath_sig' = IF IsSome(pdeath) THEN signal_by_name(Unwrap(pdeath)) ELSE None
    /\ \E pd \in PdeathResults, sub \in SubreaperResults :
          IF IsSome(pdeath) /\ IsNone(signal_by_name(Unwrap(pdeath)))
          THEN /\ Fail("invalid signal")
               /\ UNCHANGED <<prctl_res, prctl_outcome>>
          ELSE IF pd \notin {"ok", "none"}
          THEN /\ prctl_res' = [pd |-> pd, sub |-> "none"]
               /\ Fail("prctl P_DEATHSIG")
               /\ UNCHANGED prctl_outcome
          ELSE /\ prctl_res' = [pd |-> pd, sub |-> sub]
               /\ IF SubreaperFatal(sub)
                  THEN Fail("prctl SUBREAPER") /\ UNCHANGED prctl_outcome
                  ELSE /\ prctl_outcome' =
                            [subreaper_enabled |-> sub = "ok", pdeath_set |-> pd = "ok"]
                       /\ pc' = "sigblock"
                       /\ UNCHANGED error
    /\ UNCHANGED <<cfgvars, hostvars, last_step, clivars, canon, subreaper, pdeath, cmd, exec_errno, sup_mask, sfd_set,
                   child_mask, stderr, tracevars, use_pgroup, main_exit,
                   shutdown_deadline, sigkill_sent, poll_timeout, poll_start,
                   final_exit, wfc_round, wfc_start, wfc_wake, exit_code,
                   kernvars, histvars>>

\* setup_signal_delivery, first half: block.thread_block() adds the block
\* set to the mask of the supervisor.
block_signals ==
    /\ pc = "sigblock"
    /\ sup_mask' = sup_mask \cup TrapSet
    /\ pc' = "sigfd"
    /\ UNCHANGED <<cfgvars, hostvars, last_step, clivars, sigvars, subreaper, pdeath, cmd, exec_errno, sfd_set, child_mask,
                   prctl_outcome, prctl_res, error, stderr, tracevars, use_pgroup,
                   main_exit, shutdown_deadline, sigkill_sent, poll_timeout,
                   poll_start, final_exit, wfc_round, wfc_start, wfc_wake, exit_code,
                   kernvars, histvars>>

\* setup_signal_delivery, second half: the signal fd is opened on sfd_set.
open_signal_fd ==
    /\ pc = "sigfd"
    /\ \E res \in {"ok", "EMFILE"} :
          IF res = "ok"
          THEN /\ sfd_set' = Some(SfdSet)
               /\ pc' = "session"
               /\ UNCHANGED error
          ELSE Fail("signalfd") /\ UNCHANGED sfd_set
    /\ UNCHANGED <<cfgvars, hostvars, last_step, clivars, sigvars, subreaper, pdeath, cmd, exec_errno, sup_mask, child_mask,
                   prctl_outcome, prctl_res, stderr, tracevars, use_pgroup,
                   main_exit, shutdown_deadline, sigkill_sent, poll_timeout,
                   poll_start, final_exit, wfc_round, wfc_start, wfc_wake, exit_code,
                   kernvars, histvars>>

\* start_session: setsid; EPERM (already a group leader) is ignored.
start_session ==
    /\ pc = "session"
    /\ \E res \in {"ok", "EPERM"} :
          IF res \in {"ok", "EPERM"}
          THEN pc' = "prepare" /\ UNCHANGED error
          ELSE Fail("setsid")
    /\ UNCHANGED <<cfgvars, hostvars, last_step, clivars, sigvars, subreaper, pdeath, cmd, exec_errno, sup_mask, sfd_set,
                   child_mask, prctl_outcome, prctl_res, stderr, tracevars,
                   use_pgroup, main_exit, shutdown_deadline, sigkill_sent,
                   poll_timeout, poll_start, final_exit, wfc_round, wfc_start,
                   wfc_wake, exit_code, kernvars, histvars>>

\* CString::new fails on an embedded NUL byte.
HasNul(arg) == \E i \in 1..Len(arg) : arg[i] = 0

\* A conversion that looks at the program name only.
ProgramConverts(argv) == ~HasNul(argv[1])

\* Whether prepare_command converts the whole argv.
ArgvConverts(argv) == \A i \in 1..Len(argv) : ~HasNul(argv[i])

prepare_command ==
    /\ pc = "prepare"
    /\ IF ArgvConverts(cmd)
       THEN pc' = "spawn" /\ UNCHANGED error
       ELSE Fail("prepare command")
    /\ UNCHANGED <<cfgvars, hostvars, last_step, clivars, sigvars, subreaper, pdeath, cmd, exec_errno, sup_mask, sfd_set,
                   child_mask, prctl_outcome, prctl_res, stderr, tracevars,
                   use_pgroup, main_exit, shutdown_deadline, sigkill_sent,
                   poll_timeout, poll_start, final_exit, wfc_round, wfc_start,
                   wfc_wake, exit_code, kernvars, histvars>>

\* spawn_child: fork.  The child enters its own group by itself unless its
\* setpgid(0, 0) fails (the group is looked at only when group kill is asked
\* for), and unblocks the block set in its own mask before execvp.
spawn_child ==
    /\ pc = "spawn"
    /\ \E res \in {"ok", "EAGAIN"} :
          IF res = "ok"
          THEN /\ IF child_steps
                  THEN /\ child' = [st |-> "running", status |-> NoStatus,
                                    leader |-> FALSE, killed |-> FALSE]
                       /\ child_mask' = sup_mask
                       /\ child_at' = "setpgid"
                  ELSE /\ \E l \in (IF pgroup_kill THEN BOOLEAN ELSE {TRUE}) :
                             child' = [st |-> "running", status |-> NoStatus, leader |-> l,
                                       killed |-> FALSE]
                       /\ child_mask' = sup_mask \ TrapSet
                       /\ child_at' = "cmd"
               /\ pc' = "pgroup"
               /\ UNCHANGED error
          ELSE Fail("spawn child") /\ UNCHANGED <<child, child_mask, child_at>>
    /\ UNCHANGED <<cfgvars, host_refuses, child_steps, last_step, clivars, sigvars, subreaper, pdeath, cmd, exec_errno, sup_mask, sfd_set,
                   prctl_outcome, prctl_res, stderr, tracevars, use_pgroup, main_exit, shutdown_deadline, sigkill_sent,
                   poll_timeout, poll_start, final_exit, wfc_round, wfc_start,
                   wfc_wake, exit_code, now, pending, others, histvars>>

\* ------------------------------------------------- the forked child's steps
\* The lines the child writes before execvp.
GroupFailedLine == "tino: failed to establish child process group\n"
MaskFailedLine == "tino: failed to restore signal mask in child\n"

\* The child leaves the supervisor's code by _exit(code).
ChildExits(code) ==
    /\ child' = [child EXCEPT !.st = "zombie", !.status = Exited(code)]
    /\ pending' = pending \cup Queued(SIGCHLD)
    /\ child_at' = "exited"

\* setpgid(0, 0) in the child: a failure is written and the child goes on.
ChildSetpgid ==
    /\ child_at = "setpgid"
    /\ child.st = "running"
    /\ ~child.killed
    /\ \E res \in {"ok", "EPERM"} :
          /\ child' = IF res = "ok" THEN [child EXCEPT !.leader = TRUE] ELSE child
          /\ stderr' = IF res = "ok" THEN stderr ELSE Append(stderr, GroupFailedLine)
    /\ child_at' = "unblock"
    /\ UNCHANGED <<cfgvars, host_refuses, child_steps, last_step, clivars, sigvars, subreaper, pdeath, cmd, exec_errno, sup_mask, sfd_set,
                   child_mask, prctl_outcome, prctl_res, error, tracevars, supvars, now, pending, others, histvars>>

\* A child that calls execvp whether or not the mask was restored.
AfterUnblockLenient(res) == "exec"

\* Where the child goes after block.thread_unblock(): on to execvp, or out.
AfterUnblock(res) == IF res = "ok" THEN "exec" ELSE "exited"

\* block.thread_unblock() in the child: a failure is written and the child
\* exits with status 1.
ChildUnblock ==
    /\ child_at = "unblock"
    /\ child.st = "running"
    /\ ~child.killed
    /\ \E res \in {"ok", "EINVAL"} :
          /\ child_mask' = IF res = "ok" THEN child_mask \ TrapSet ELSE child_mask
          /\ stderr' = IF res = "ok" THEN stderr ELSE Append(stderr, MaskFailedLine)
          /\ IF AfterUnblock(res) = "exited"
             THEN ChildExits(1)
             ELSE child_at' = AfterUnblock(res) /\ UNCHANGED <<child, pending>>
    /\ UNCHANGED <<cfgvars, host_refuses, child_steps, last_step, clivars, sigvars, subreaper, pdeath, cmd, exec_errno, sup_mask, sfd_set,
                   prctl_outcome, prctl_res, error, tracevars, supvars, now, others, histvars>>

\* execvp in the child: the command takes over, or the failure is reported
\* and the child exits with status 127.
ChildExec ==
    /\ child_at = "exec"
    /\ child.st = "running"
    /\ ~child.killed
    /\ \E e \in ExecErrnos :
          /\ exec_errno' = e
          /\ IF e = 0
             THEN child_at' = "cmd" /\ UNCHANGED <<child, pending, stderr>>
             ELSE /\ ChildExits(127)
                  /\ stderr' = stderr \o report_exec_failure(cmd[1], e)
    /\ UNCHANGED <<cfgvars, host_refuses, child_steps, last_step, clivars, sigvars, subreaper, pdeath, cmd, sup_mask, sfd_set,
                   child_mask, prctl_outcome, prctl_res, error, tracevars, supvars, now, others, histvars>>

\* The results of the parent's setpgid(child, child).  When the child's own
\* steps are followed: EACCES once the child has called execvp with success,
\* success or a refusal before, and ESRCH as well for a child that is no
\* longer running.
SetpgidResults ==
    IF ~child_steps
    THEN IF child.st = "running" THEN {"ok", "EACCES", "EPERM"} ELSE {"ESRCH", "EACCES"}
    ELSE (IF child_at = "cmd" THEN {"EACCES"} ELSE {"ok", "EPERM"})
         \cup (IF child.st = "running" THEN {} ELSE {"ESRCH"})

\* manage_process_group that takes EACCES for the child's having settled
\* its group, without asking getpgid.
PgroupOutcomeTrusting(requested, res) ==
    IF ~requested THEN FALSE
    ELSE CASE res = "ok" -> TRUE
           [] res = "EACCES" -> TRUE
           [] res = "ESRCH" -> FALSE
           [] OTHER -> FALSE

\* manage_process_group that gives up on every setpgid error.
PgroupOutcomeStrict(requested, res) == requested /\ res = "ok"

\* manage_process_group: whether group kill stays enabled.
PgroupOutcome(requested, res) ==
    IF ~requested THEN FALSE
    ELSE CASE res = "ok" -> TRUE
           [] res = "EACCES" -> child.leader
           [] res = "ESRCH" -> FALSE
           [] OTHER -> FALSE

\* manage_process_group, the call: setpgid(child_pid, child_pid) when group
\* kill is requested; its result is a local of the function.
setpgid_child ==
    /\ pc = "pgroup"
    /\ \E res \in (IF pgroup_kill THEN SetpgidResults ELSE {"none"}) :
          /\ setpgid_res' = res
          /\ child' = IF res = "ok" THEN [child EXCEPT !.leader = TRUE] ELSE child
    /\ pc' = "pgroup_ret"
    /\ UNCHANGED <<cfgvars, hostvars, last_step, clivars, sigvars, bootvars, stop_event, n_reaped, use_pgroup, main_exit,
                   shutdown_deadline, sigkill_sent, poll_timeout, poll_start,
                   final_exit, wfc_round, wfc_start, wfc_wake, exit_code, now,
                   pending, others, histvars>>

\* manage_process_group, the match on the result (with getpgid after
\* EACCES), and the entry of supervise_child with the value returned.
manage_process_group ==
    /\ pc = "pgroup_ret"
    /\ use_pgroup' = PgroupOutcome(pgroup_kill, setpgid_res)
    /\ setpgid_res' = "none"
    /\ EnterPoll(sigkill_sent)
    /\ UNCHANGED <<cfgvars, hostvars, last_step, clivars, sigvars, bootvars, stop_event, n_reaped, main_exit,
                   shutdown_deadline, sigkill_sent, final_exit, wfc_round,
                   wfc_start, wfc_wake, exit_code, kernvars, histvars>>

\* ---------------------------------------------------- supervise_child loop
is_termination_signal(sig) == sig = SIGTERM \/ sig = SIGINT \/ sig = SIGQUIT

\* poll returns when the signal fd is readable or the timeout has run out.
PollExpired == IsSome(poll_timeout) /\ now >= poll_start + Unwrap(poll_timeout)

PollReturn ==
    /\ pc = "poll"
    /\ pending # {} \/ PollExpired
    /\ pc' = IF pending # {} THEN "drain" ELSE "deadline"
    /\ last_step' = NoStep
    /\ UNCHANGED <<cfgvars, hostvars, clivars, sigvars, bootvars, tracevars, use_pgroup, main_exit, shutdown_deadline, sigkill_sent,
                   poll_timeout, poll_start, final_exit, wfc_round, wfc_start,
                   wfc_wake, exit_code, kernvars, histvars>>

\* The errors poll(2) is made to return here: an interruption and one of
\* the others.
PollErrnos == {"EINTR", "EINVAL"}

\* A loop that restarts the iteration on every poll error.
PollRestartsAlways(e) == TRUE

\* Err(Errno::EINTR) => continue
PollRestarts(e) == e = "EINTR"

\* poll fails: EINTR restarts the iteration, any other error is returned.
PollError ==
    /\ pc = "poll"
    /\ \E e \in PollErrnos :
          /\ IF PollRestarts(e) THEN EnterPoll(sigkill_sent) /\ UNCHANGED error
             ELSE Fail("poll") /\ UNCHANGED <<poll_timeout, poll_start>>
          /\ last_step' = [NoStep EXCEPT !.poll = e]
    /\ UNCHANGED <<cfgvars, hostvars, clivars, sigvars, subreaper, pdeath, cmd, exec_errno, sup_mask, sfd_set,
                   child_mask, prctl_outcome, prctl_res, stderr, tracevars, use_pgroup, main_exit, shutdown_deadline, sigkill_sent,
                   final_exit, wfc_round, wfc_start,
                   wfc_wake, exit_code, kernvars, histvars>>

\* The arming condition without its test of sigkill_sent.
ShouldArmAfterKill(sig) ==
    pgroup_kill /\ is_termination_signal(sig) /\ IsNone(main_exit)

\* The arming condition without its test of the -g option.
ShouldArmWithoutGroup(sig) ==
    is_termination_signal(sig) /\ IsNone(main_exit) /\ ~sigkill_sent

\* The arming condition of the drain loop.
ShouldArm(sig) ==
    pgroup_kill /\ is_termination_signal(sig) /\ IsNone(main_exit) /\ ~sigkill_sent

\* The value assigned to shutdown_deadline when the arming condition holds.
ArmedDeadline(deadline, t) ==
    IF IsNone(deadline) THEN Some(t + grace_ms) ELSE Some(t)

\* A drain loop that takes no record for a child-termination record.
IsChildRecordNever(sig) == FALSE

\* if sig == SIGCHLD: the record goes to the reaper and is not forwarded.
IsChildRecord(sig) == sig = SIGCHLD

\* One record read that is not SIGCHLD: forward it, then arm the deadline.
Forward(sig) ==
    /\ send_signal(use_pgroup, sig, "forward")
    /\ n_forwarded' = n_forwarded + 1
    /\ shutdown_deadline' =
          IF ShouldArm(sig) THEN ArmedDeadline(shutdown_deadline, now)
          ELSE shutdown_deadline
    /\ first_forward' =
          IF IsNone(first_forward) /\ is_termination_signal(sig) THEN Some(now)
          ELSE first_forward
    /\ first_deadline' =
          IF IsNone(first_deadline) /\ ShouldArm(sig) THEN Some(now + grace_ms)
          ELSE first_deadline
    /\ pc' = "drain"

\* A drain loop that takes every number for a signal.
KnownSignalAny(signo) == TRUE

\* Signal::try_from(signo) is Ok: the signals of the Signal enum, 1 to 31.
KnownSignal(signo) == signo \in 1..31

\* warn!("received unexpected signal {}", info.ssi_signo)
UnexpectedLine(signo) ==
    [level |-> "warn", msg |-> "received unexpected signal", arg |-> signo]

\* while let Some(info) = signal_fd.read_signal(): one read per step.
ReadSignal ==
    /\ pc = "drain"
    /\ \/ /\ pending = {}
          /\ pc' = "deadline"
          /\ last_step' = NoStep
          /\ UNCHANGED <<shutdown_deadline, pending, child, others, histvars>>
       \/ \E sig \in pending :
             /\ pending' = pending \ {sig}
             /\ IF ~KnownSignal(sig)
                THEN /\ last_step' = Logged(UnexpectedLine(sig))
                     /\ pc' = "drain"
                     /\ UNCHANGED <<shutdown_deadline, child, others, histvars>>
                ELSE IF IsChildRecord(sig)
                THEN /\ pc' = "reap"
                     /\ last_step' = NoStep
                     /\ UNCHANGED <<shutdown_deadline, child, others, histvars>>
                ELSE Forward(sig)
    /\ UNCHANGED <<cfgvars, hostvars, clivars, sigvars, bootvars, tracevars, use_pgroup, main_exit, sigkill_sent, poll_timeout,
                   poll_start, final_exit, wfc_round, wfc_start, wfc_wake,
                   exit_code, now>>

\* StatusCode with the 128 offset of a death by signal forgotten.
StatusCodeNoOffset(status) == status.val

\* The exit code a wait status stands for.
StatusCode(status) ==
    IF status.kind = "exited" THEN status.val ELSE 128 + status.val

\* main_exit after handle_sigchld has seen a termination of pid.
RecordExit(pid, status, exit) ==
    IF pid = ChildPid THEN Some(StatusCode(status)) ELSE exit

\* A stop event of the main child taken for its death by the stop signal.
ExitAfterStoppedAsDeath(pid, sig, exit) ==
    IF pid = ChildPid THEN Some(128 + sig) ELSE exit

\* main_exit after handle_sigchld has seen WaitStatus::Stopped(pid, sig).
ExitAfterStopped(pid, sig, exit) == exit

\* A reaper that returns after the first wait status.
ReapOnlyOnce(kind) == FALSE

\* Whether handle_sigchld calls waitpid again after a wait status of this
\* kind: the Exited and Signaled arms fall through to the next iteration,
\* the Stopped arm breaks.
ReapContinues(kind) == kind \in {"exited", "signaled"}

\* After one wait status: the next waitpid, or the return to the drain loop.
ReapNext(kind) ==
    IF ReapContinues(kind)
    THEN pc' = "reap" /\ n_reaped' = n_reaped + 1
    ELSE pc' = "drain" /\ n_reaped' = 0

\* A build that logs reaped children at debug level whatever -w says.
ReapLevelDebug == "debug"

\* The level of the lines about reaped and stopped children: warn with -w.
ReapLevel == IF warn_on_reap THEN "warn" ELSE "debug"

\* "reaped secondary PID {}" and "child PID {} stopped by signal {:?}"
ReapLine(pid) == [level |-> ReapLevel, msg |-> "reaped secondary PID", arg |-> pid]
StopLine(pid) == [level |-> ReapLevel, msg |-> "child PID stopped", arg |-> pid]

\* handle_sigchld: one waitpid(-1, WNOHANG) per step, until StillAlive or
\* ECHILD.  waitpid reports any one of the waitable children: a zombie, or
\* the ptrace stop of the main child.
handle_sigchld ==
    /\ pc = "reap"
    /\ \/ \E z \in Zombies :
             /\ main_exit' = RecordExit(ZombiePid(z), ZombieStatus(z), main_exit)
             /\ child' = ChildAfterReap(z)
             /\ others' = OthersAfterReap(z)
             /\ ReapNext(ZombieStatus(z).kind)
             /\ last_step' = IF ZombiePid(z) = ChildPid THEN NoStep
                             ELSE Logged(ReapLine(ZombiePid(z)))
             /\ UNCHANGED stop_event
       \/ /\ stop_event = "pending"
          /\ stop_event' = "reported"
          /\ main_exit' = ExitAfterStopped(ChildPid, SIGTERM, main_exit)
          /\ ReapNext("stopped")
          /\ last_step' = Logged(StopLine(ChildPid))
          /\ UNCHANGED <<child, others>>
       \/ /\ Zombies = {}
          /\ stop_event # "pending"
          /\ pc' = "drain"
          /\ n_reaped' = 0
          /\ last_step' = NoStep
          /\ UNCHANGED <<main_exit, child, others, stop_event>>
    /\ UNCHANGED <<cfgvars, hostvars, clivars, sigvars, bootvars, setpgid_res, use_pgroup, shutdown_deadline, sigkill_sent, poll_timeout,
                   poll_start, final_exit, wfc_round, wfc_start, wfc_wake,
                   exit_code, now, pending, histvars>>

\* A deadline check that waits until the deadline has passed.
DeadlineDueStrict(deadline, killed, exit, t) ==
    IsSome(deadline) /\ ~killed /\ IsNone(exit) /\ t > Unwrap(deadline)

\* A deadline check without its test of main_exit.
DeadlineDueAfterExit(deadline, killed, exit, t) ==
    IsSome(deadline) /\ ~killed /\ t >= Unwrap(deadline)

\* The condition of the deadline check.
DeadlineDue(deadline, killed, exit, t) ==
    IsSome(deadline) /\ ~killed /\ IsNone(exit) /\ t >= Unwrap(deadline)

\* A loop that is left after every iteration.
LoopBreaksAlways(exit) == TRUE

\* if main_exit.is_some() { break; }
LoopBreaks(exit) == IsSome(exit)

\* The deadline check, the termination test and, if the loop goes on, the
\* top of the next iteration.
DeadlineCheck ==
    /\ pc = "deadline"
    /\ IF DeadlineDue(shutdown_deadline, sigkill_sent, main_exit, now)
       THEN /\ send_signal(use_pgroup, SIGKILL, "deadline")
            /\ sigkill_sent' = TRUE
       ELSE last_step' = NoStep /\ UNCHANGED <<sigkill_sent, n_sent, last_send, child, others>>
    /\ IF LoopBreaks(main_exit)
       THEN pc' = "post" /\ UNCHANGED <<poll_timeout, poll_start>>
       ELSE EnterPoll(sigkill_sent')
    /\ UNCHANGED <<cfgvars, hostvars, clivars, sigvars, bootvars, tracevars, use_pgroup, main_exit, shutdown_deadline,
                   final_exit, wfc_round, wfc_start, wfc_wake,
                   exit_code, now, pending, n_forwarded, first_forward, first_deadline>>

\* ------------------------------------------------------ post-loop shutdown
\* compute_exit_code looking the whole code up instead of its low 8 bits.
compute_exit_code_uncast(exit, zero) ==
    LET code == IF IsSome(exit) THEN Unwrap(exit) ELSE 0
    IN  IF code \in zero THEN 0 ELSE code

\* compute_exit_code: `code as u8` keeps the low 8 bits.
compute_exit_code(exit, zero) ==
    LET code == IF IsSome(exit) THEN Unwrap(exit) ELSE 0
    IN  IF (code % 256) \in zero THEN 0 ELSE code

\* After the loop: the final exit code, then SIGTERM to the group if use_pgroup.
PostLoop ==
    /\ pc = "post"
    /\ final_exit' = Some(compute_exit_code(main_exit, expect_zero))
    /\ IF use_pgroup
       THEN /\ send_signal(TRUE, SIGTERM, "term")
            /\ wfc_round' = 1
       ELSE /\ wfc_round' = 0
            /\ last_step' = NoStep
            /\ UNCHANGED <<n_sent, last_send, child, others>>
    /\ wfc_start' = now
    /\ pc' = "wfc"
    /\ UNCHANGED <<cfgvars, hostvars, clivars, sigvars, bootvars, tracevars, use_pgroup, main_exit, shutdown_deadline, sigkill_sent,
                   poll_timeout, poll_start, wfc_wake, exit_code, now, pending,
                   n_forwarded, first_forward, first_deadline>>

\* A post-loop shutdown that sends the forced kill whatever the first wait
\* returned.
WfcReturnKillsAlways(full) ==
    IF wfc_round = 1
    THEN /\ send_signal(TRUE, SIGKILL, "postkill")
         /\ wfc_round' = 2
         /\ wfc_start' = now
         /\ pc' = "wfc"
         /\ UNCHANGED <<wfc_wake, exit_code>>
    ELSE /\ pc' = "done"
         /\ last_step' = NoStep
         /\ exit_code' = final_exit
         /\ UNCHANGED <<wfc_round, wfc_start, wfc_wake, n_sent, last_send, child, others>>

\* A post-loop shutdown that returns the code of a death by SIGKILL once it
\* has sent the forced kill.
WfcReturnRecomputes(full) ==
    IF wfc_round = 1 /\ ~full
    THEN /\ send_signal(TRUE, SIGKILL, "postkill")
         /\ wfc_round' = 2
         /\ wfc_start' = now
         /\ pc' = "wfc"
         /\ UNCHANGED <<wfc_wake, exit_code>>
    ELSE /\ pc' = "done"
         /\ last_step' = NoStep
         /\ exit_code' = IF wfc_round = 2 THEN Some(128 + SIGKILL) ELSE final_exit
         /\ UNCHANGED <<wfc_round, wfc_start, wfc_wake, n_sent, last_send, child, others>>

\* wait_for_children has returned `full` to supervise_child.
WfcReturn(full) ==
    IF wfc_round = 1 /\ ~full
    THEN /\ send_signal(TRUE, SIGKILL, "postkill")
         /\ wfc_round' = 2
         /\ wfc_start' = now
         /\ pc' = "wfc"
         /\ UNCHANGED <<wfc_wake, exit_code>>
    ELSE /\ pc' = "done"
         /\ last_step' = NoStep
         /\ exit_code' = final_exit
         /\ UNCHANGED <<wfc_round, wfc_start, wfc_wake, n_sent, last_send, child, others>>

\* wait_for_children gives up: timeout_ms == 0 or the timeout has elapsed.
WfcTimedOut(start, t) == grace_ms = 0 \/ t - start >= grace_ms

\* wait_for_children: one waitpid(-1, WNOHANG) per step.
wait_for_children ==
    /\ pc = "wfc"
    /\ \/ \E z \in Zombies :
             /\ child' = ChildAfterReap(z)
             /\ others' = OthersAfterReap(z)
             /\ last_step' = Logged(ReapLine(ZombiePid(z)))
             /\ UNCHANGED <<pc, wfc_round, wfc_start, wfc_wake, exit_code, n_sent, last_send>>
       \/ /\ Zombies = {}
          /\ ~HasChildren
          /\ WfcReturn(TRUE)
       \/ /\ Zombies = {}
          /\ HasChildren
          /\ IF WfcTimedOut(wfc_start, now)
             THEN WfcReturn(FALSE)
             ELSE /\ wfc_wake' = now + Min(grace_ms - (now - wfc_start), SleepQuantum)
                  /\ pc' = "wfc_sleep"
                  /\ last_step' = NoStep
                  /\ UNCHANGED <<wfc_round, wfc_start, exit_code, n_sent, last_send, child, others>>
    /\ UNCHANGED <<cfgvars, hostvars, clivars, sigvars, bootvars, tracevars, use_pgroup, main_exit, shutdown_deadline, sigkill_sent,
                   poll_timeout, poll_start, final_exit, now, pending,
                   n_forwarded, first_forward, first_deadline>>

\* thread::sleep is over.
WfcWake ==
    /\ pc = "wfc_sleep"
    /\ now >= wfc_wake
    /\ pc' = "wfc"
    /\ last_step' = NoStep
    /\ UNCHANGED <<cfgvars, hostvars, clivars, sigvars, bootvars, tracevars, use_pgroup, main_exit, shutdown_deadline, sigkill_sent,
                   poll_timeout, poll_start, final_exit, wfc_round, wfc_start,
                   wfc_wake, exit_code, kernvars, histvars>>

\* ------------------------------------------------------- specifications
Supervisor ==
    \/ configure_prctl
    \/ block_signals
    \/ open_signal_fd
    \/ start_session
    \/ prepare_command
    \/ spawn_child
    \/ setpgid_child
    \/ manage_process_group
    \/ PollReturn
    \/ PollError
    \/ ReadSignal
    \/ handle_sigchld
    \/ DeadlineCheck
    \/ PostLoop
    \/ wait_for_children
    \/ WfcWake

Kernel ==
    \/ Tick
    \/ ExternalSignal
    \/ ChildTerminates
    \/ Adopt
    \/ OtherTerminates

Next == Supervisor \/ Kernel

\* The runs in which no pid is used twice.
Spec == Init /\ [][Next]_vars

\* The runs in which the kernel may recycle the main child's pid.
NextRecycle == Next \/ AdoptRecycled

SpecRecycle == Init /\ [][NextRecycle]_vars

\* The runs in which the main child is traced by the supervisor and may stop.
NextStop == Next \/ ChildStops

SpecStop == Init /\ [][NextStop]_vars

\* The runs over the command lines, prctl requests and execvp outcomes, with
\* a grace period of one time unit and no group kill.
RemapChoicesBoot == {{}, {127}}

InitBoot ==
    /\ pgroup_kill = FALSE
    /\ grace_ms = 1
    /\ expect_zero \in RemapChoicesBoot
    /\ subreaper \in BOOLEAN
    /\ pdeath \in PdeathChoices
    /\ cmd \in CmdChoices
    /\ exec_errno \in ExecErrnos
    /\ InitRest
    /\ InitParsed
    /\ InitHost
    /\ pc = "prctl"
    /\ use_pgroup = FALSE
    /\ main_exit = None
    /\ shutdown_deadline = None
    /\ sigkill_sent = FALSE
    /\ poll_timeout = None
    /\ poll_start = 0
    /\ final_exit = None
    /\ wfc_round = 0
    /\ wfc_start = 0
    /\ wfc_wake = 0
    /\ exit_code = None
    /\ now = 0
    /\ pending = {}
    /\ child = [st |-> "unborn", status |-> NoStatus, leader |-> FALSE, killed |-> FALSE]
    /\ others = [i \in Slots |-> NoOther]
    /\ n_forwarded = 0
    /\ n_sent = 0
    /\ last_send = None
    /\ first_forward = None
    /\ first_deadline = None

SpecBoot == InitBoot /\ [][Next]_vars

\* The supervisor runs, the clock advances, and a process that was sent
\* SIGKILL dies.
KilledChildDies == child.killed /\ ChildTerminates

Progress ==
    \/ configure_prctl
    \/ block_signals
    \/ open_signal_fd
    \/ start_session
    \/ prepare_command
    \/ spawn_child
    \/ setpgid_child
    \/ manage_process_group
    \/ PollReturn
    \/ ReadSignal
    \/ handle_sigchld
    \/ DeadlineCheck
    \/ PostLoop
    \/ wait_for_children
    \/ WfcWake

\* The runs started with group kill and an empty remap set.
InitFair == Init /\ pgroup_kill /\ expect_zero = {}

FairSpec ==
    InitFair /\ [][Next]_vars /\ WF_vars(Progress) /\ WF_vars(Tick) /\ WF_vars(KilledChildDies)

\* compute_exit_code applied to inputs of its whole domain, as the unit test
\* compute_exit_code_remaps_expected_values applies it: Option<i32> and a set
\* of bytes.
PolicyCodes == (0 - 260)..520
PolicySets == SUBSET {0, 3, 255}

InitPolicy ==
    /\ pgroup_kill = FALSE
    /\ grace_ms = 0
    /\ expect_zero \in PolicySets
    /\ subreaper = FALSE
    /\ pdeath = None
    /\ cmd = PlainCmd
    /\ exec_errno = 0
    /\ InitRest
    /\ InitParsed
    /\ InitHost
    /\ pc = "unit"
    /\ use_pgroup = FALSE
    /\ main_exit \in {None} \cup {Some(m) : m \in PolicyCodes}
    /\ shutdown_deadline = None
    /\ sigkill_sent = FALSE
    /\ poll_timeout = None
    /\ poll_start = 0
    /\ final_exit = None
    /\ wfc_round = 0
    /\ wfc_start = 0
    /\ wfc_wake = 0
    /\ exit_code = None
    /\ now = 0
    /\ pending = {}
    /\ child = [st |-> "unborn", status |-> NoStatus, leader |-> FALSE, killed |-> FALSE]
    /\ others = [i \in Slots |-> NoOther]
    /\ n_forwarded = 0
    /\ n_sent = 0
    /\ last_send = None
    /\ first_forward = None
    /\ first_deadline = None

UnitCompute ==
    /\ pc = "unit"
    /\ final_exit' = Some(compute_exit_code(main_exit, expect_zero))
    /\ pc' = "unit_done"
    /\ UNCHANGED <<cfgvars, hostvars, last_step, clivars, sigvars, bootvars, tracevars, use_pgroup, main_exit, shutdown_deadline, sigkill_sent,
                   poll_timeout, poll_start, wfc_round, wfc_start, wfc_wake,
                   exit_code, kernvars, histvars>>

\* The supervisor's runs together with the direct calls of compute_exit_code.
SpecPolicy == (Init \/ InitPolicy) /\ [][Next \/ UnitCompute]_vars

\* The runs of the front end, from the command line to the fork: over the
\* spellings of the -p value, over the values of the two boolean overrides,
\* over the values of TINI_VERBOSITY, and over the license flag, the command
\* and the build.
InitCli ==
    /\ grace_ms = 1
    /\ expect_zero = {}
    /\ pdeath = None
    /\ exec_errno = 0
    /\ \/ /\ pdeath_raw \in Opt(SignalInputs)
          /\ subreaper = FALSE /\ pgroup_kill = FALSE
          /\ subreaper_env = None /\ pgroup_env = None
          /\ verbosity = 0 /\ verbosity_env = None
          /\ license = FALSE /\ cmd = PlainCmd /\ debug_assertions = FALSE
       \/ /\ pdeath_raw = None
          /\ subreaper \in BOOLEAN /\ pgroup_kill \in BOOLEAN
          /\ \/ subreaper_env \in Opt(EnvFlagInputs) /\ pgroup_env \in Opt(EnvFlagFew)
             \/ subreaper_env \in Opt(EnvFlagFew) /\ pgroup_env \in Opt(EnvFlagInputs)
          /\ verbosity = 0 /\ verbosity_env = None
          /\ license = FALSE /\ cmd = PlainCmd /\ debug_assertions = FALSE
       \/ /\ pdeath_raw = None
          /\ subreaper = FALSE /\ pgroup_kill = FALSE
          /\ subreaper_env = None /\ pgroup_env = None
          /\ verbosity \in VerbosityCounts /\ verbosity_env \in Opt(VerbosityInputs)
          /\ license = FALSE /\ cmd = PlainCmd /\ debug_assertions = FALSE
       \/ /\ pdeath_raw = None
          /\ subreaper \in BOOLEAN /\ pgroup_kill = FALSE
          /\ subreaper_env \in Opt(EnvFlagFew) /\ pgroup_env \in Opt(EnvFlagFew)
          /\ verbosity = 0 /\ verbosity_env \in Opt({[raw |-> <<"3">>, kind |-> "level", level |-> 3]})
          /\ license \in BOOLEAN /\ cmd \in {<<>>, PlainCmd} /\ debug_assertions \in BOOLEAN
    /\ env_log = NoEnvLog
    /\ stdout = <<>>
    /\ canon = None
    /\ pdeath_sig = None
    /\ InitHost
    /\ InitRest
    /\ pc = "parse"
    /\ use_pgroup = FALSE
    /\ main_exit = None
    /\ shutdown_deadline = None
    /\ sigkill_sent = FALSE
    /\ poll_timeout = None
    /\ poll_start = 0
    /\ final_exit = None
    /\ wfc_round = 0
    /\ wfc_start = 0
    /\ wfc_wake = 0
    /\ exit_code = None
    /\ now = 0
    /\ pending = {}
    /\ child = [st |-> "unborn", status |-> NoStatus, leader |-> FALSE, killed |-> FALSE]
    /\ others = [i \in Slots |-> NoOther]
    /\ n_forwarded = 0
    /\ n_sent = 0
    /\ last_send = None
    /\ first_forward = None
    /\ first_deadline = None

NextCli ==
    \/ UnitCanonical
    \/ parse_args
    \/ run
    \/ configure_prctl
    \/ block_signals
    \/ open_signal_fd
    \/ start_session
    \/ prepare_command
    \/ spawn_child

SpecCli == InitCli /\ [][NextCli]_vars


\* ------------------------------------------------------------------ claims

\* C1: once recorded, main_exit is the main child's exit code c after a
\* normal exit and 128 + s after its death by signal s; with an empty
\* remap_exit set the supervisor returns exactly that value.
C1_ExitCodeIsChildStatus ==
    /\ IsSome(main_exit) =>
          /\ child.status.kind \in {"exited", "signaled"}
          /\ child.status.kind = "exited" => Unwrap(main_exit) = child.status.val
          /\ child.status.kind = "signaled" => Unwrap(main_exit) = 128 + child.status.val
    /\ (pc = "done" /\ expect_zero = {}) =>
          /\ IsSome(main_exit)
          /\ exit_code = main_exit

\* The child exited with 3, no signal was ever forwarded, and 3 is returned.
C1_Witness ==
    /\ pc = "done"
    /\ expect_zero = {}
    /\ n_forwarded = 0
    /\ child.status = Exited(3)
    /\ exit_code = Some(3)

\* C2: the final exit code is 0 if the low 8 bits of main_exit (0 when
\* unset) are in remap_exit and main_exit unchanged otherwise; a main child
\* that exits with a byte of remap_exit makes the supervisor return 0.
C2_ExitPolicy ==
    LET m == IF main_exit = None THEN 0 ELSE Unwrap(main_exit)
        low == m % 256
        expected == IF low \in expect_zero THEN 0 ELSE m
    IN  /\ pc \in {"wfc", "wfc_sleep", "done", "unit_done"} => final_exit = Some(expected)
        /\ pc = "done" => exit_code = Some(expected)
        /\ (pc = "done" /\ child.status.kind = "exited" /\ child.status.val \in expect_zero)
              => exit_code = Some(0)

\* A run that returns 0 for a remapped exit code 3.
C2_Witness ==
    /\ pc = "done"
    /\ child.status = Exited(3)
    /\ expect_zero = {3}
    /\ exit_code = Some(0)

\* C3: a forwardable record drained while the main child is alive causes
\* exactly one send, of the same signal, to the group if use_pgroup and to
\* the child's pid otherwise, before the next record is read.
ForwardedRecord(s) ==
    /\ pc = "drain"
    /\ s \in pending
    /\ s # SIGCHLD
    /\ pending' = pending \ {s}

C3_ForwardExactlyOnce ==
    [][\A s \in FORWARDED_SIGNALS :
          (ForwardedRecord(s) /\ child.st = "running") =>
              /\ n_sent' = n_sent + 1
              /\ last_send' = Some([sig |-> s, group |-> use_pgroup, src |-> "forward"])]_vars

\* Two records were forwarded to the group of a living child, SIGTERM last.
C3_Witness ==
    /\ n_forwarded = 2
    /\ n_sent = 2
    /\ use_pgroup
    /\ child.st = "running"
    /\ last_send = Some([sig |-> SIGTERM, group |-> TRUE, src |-> "forward"])

\* C4: with group kill requested and an empty remap set, once a termination
\* intent has armed the deadline the run ends, and unless the main child
\* terminated by itself (or poll failed) the forced kill was sent, the
\* child's death by SIGKILL was reaped and 137 is returned.
ChildDiedByItself == child.status \in ChildStatuses

C4_EscalationReturns137 ==
    [](( pgroup_kill /\ expect_zero = {} /\ IsSome(shutdown_deadline) ) =>
          <>( \/ pc = "fatal"
              \/ /\ pc = "done"
                 /\ \/ ChildDiedByItself
                    \/ /\ sigkill_sent
                       /\ child.status = Signaled(SIGKILL)
                       /\ child.st = "reaped"
                       /\ exit_code = Some(137) ))

\* One forwarded SIGTERM, the forced kill, and 137 returned.
C4_Witness ==
    /\ pc = "done"
    /\ pgroup_kill
    /\ expect_zero = {}
    /\ n_forwarded = 1
    /\ sigkill_sent
    /\ child.status = Signaled(SIGKILL)
    /\ exit_code = Some(137)

\* C5: the in-loop forced kill is never sent earlier than grace_ms after the
\* first termination-intent signal was forwarded.
C5_KillNotBeforeGrace ==
    sigkill_sent =>
        /\ IsSome(first_forward)
        /\ now >= Unwrap(first_forward) + grace_ms

\* C6: a termination-intent signal drained while shutdown_deadline is set
\* leaves shutdown_deadline unchanged.
C6_ArmOnlyOnce ==
    [][IsSome(shutdown_deadline) => shutdown_deadline' = shutdown_deadline]_vars

\* C7: once set, shutdown_deadline is never later than the value it was
\* first given.
C7_DeadlineMonotonic ==
    IsSome(first_deadline) =>
        /\ IsSome(shutdown_deadline)
        /\ Unwrap(shutdown_deadline) <= Unwrap(first_deadline)

\* C8: after sigkill_sent has become true it stays true, the loop sends no
\* second forced kill, and shutdown_deadline is not armed again.
DeadlineKillSent ==
    /\ n_sent' = n_sent + 1
    /\ Unwrap(last_send').src = "deadline"

C8_EscalationOnce ==
    [][sigkill_sent =>
          /\ sigkill_sent'
          /\ shutdown_deadline' = shutdown_deadline
          /\ ~DeadlineKillSent]_vars

\* After the forced kill, with the child not yet reaped, a SIGTERM was
\* drained and forwarded.
C8_Witness ==
    /\ sigkill_sent
    /\ IsNone(main_exit)
    /\ InLoop
    /\ last_send = Some([sig |-> SIGTERM, group |-> use_pgroup, src |-> "forward"])

\* C9: once main_exit is set, no drained record is forwarded any more.
ForwardSent ==
    /\ n_sent' = n_sent + 1
    /\ Unwrap(last_send').src = "forward"

C9_NoForwardAfterExit ==
    [][IsSome(main_exit) => ~ForwardSent]_vars

\* C10: main_exit is assigned at most once; a later wait record with the
\* main child's pid leaves it unchanged.
C10_MainExitSetOnce ==
    [][IsSome(main_exit) => main_exit' = main_exit]_vars

\* C11 as stated: whenever the reaper returns, every descendant that had
\* already terminated has been reaped, and a reaped descendant is never
\* reaped again.
ReaperReturns == pc = "reap" /\ pc' = "drain"

NoSecondReap ==
    /\ child.st = "reaped" => child'.st = "reaped"
    /\ \A i \in Slots : others[i].st = "reaped" => others'[i].st = "reaped"

C11_ReaperDrainsAll ==
    [][(ReaperReturns => Zombies' = {}) /\ NoSecondReap]_vars

\* C11 amended: the reaper repeats waitpid until it reports no state change,
\* no children or a stop event; when it returns without having seen a stop
\* event every descendant that had already terminated has been reaped, also
\* when several terminations were coalesced into one record; no terminated
\* descendant is consumed by more than one reap.
C11_ReaperDrainsUnlessStopped ==
    [][((ReaperReturns /\ stop_event' = stop_event) => Zombies' = {}) /\ NoSecondReap]_vars

\* One invocation has reaped the main child and an orphan and is about to
\* return.
C11_Witness ==
    /\ pc = "reap"
    /\ n_reaped = 2
    /\ Zombies = {}
    /\ child.st = "reaped"
    /\ \E i \in Slots : others[i].st = "reaped"

\* C12: when the supervisor returns its exit code, no child process of the
\* supervised tree is still alive (a process that was sent SIGKILL counts as
\* dead).
Survives(p) == p.st \in {"alive", "running"} /\ ~p.killed

C12_NoSurvivors ==
    pc = "done" => (~Survives(child) /\ \A i \in Slots : ~Survives(others[i]))

\* C13: with grace_ms = 0 and group kill requested, once a termination intent
\* drained with the main child alive has armed the deadline, the forced kill
\* is sent by the deadline check that follows the drain: poll is never
\* entered again without it.
C13_ImmediateEscalation ==
    (pc = "poll" /\ pgroup_kill /\ grace_ms = 0 /\ IsSome(shutdown_deadline)
        /\ IsNone(main_exit)) => sigkill_sent

\* One termination intent was forwarded and the forced kill followed without
\* the clock having moved.
C13_Witness ==
    /\ pc = "poll"
    /\ pgroup_kill
    /\ grace_ms = 0
    /\ now = 0
    /\ n_forwarded = 1
    /\ n_sent = 2
    /\ sigkill_sent
    /\ IsNone(main_exit)
    /\ last_send = Some([sig |-> SIGKILL, group |-> use_pgroup, src |-> "deadline"])

\* C14: a stop event reported to the reaper leaves main_exit unset, reaps
\* nothing, and returns the reaper to the drain loop, which goes on.
StopReported == pc = "reap" /\ stop_event = "pending" /\ stop_event' = "reported"

C15_NeverSendsChld ==
    IsSome(last_send) =>
        LET m == Unwrap(last_send)
        IN  /\ m.sig # SIGCHLD
            /\ m.src = "forward" => m.sig \in FORWARDED_SIGNALS
            /\ m.src = "term" => m.sig = SIGTERM
            /\ m.src \in {"deadline", "postkill"} => m.sig = SIGKILL
            /\ m.src \in {"forward", "term", "deadline", "postkill"}

\* A child-termination record was consumed by the reaper and the only send
\* is the forward of SIGCONT.
C15_Witness ==
    /\ IsSome(main_exit)
    /\ n_forwarded = 1
    /\ n_sent = 1
    /\ last_send = Some([sig |-> SIGCONT, group |-> use_pgroup, src |-> "forward"])

\* C16: once setup_signal_delivery has blocked it, the trap set stays blocked
\* on the supervisor; it is blocked when the signal fd is open and when the
\* child exists, the signal fd reads exactly the blocked set, and the child
\* has it unblocked.
C16_TrapSetBlocked ==
    LET trap == FORWARDED_SIGNALS \cup {SIGCHLD}
        before == {"prctl", "sigblock", "unit", "unit_done"}
        early == {Some("prctl P_DEATHSIG"), Some("prctl SUBREAPER")}
    IN  /\ (pc \notin before /\ error \notin early) => trap \subseteq sup_mask
        /\ IsSome(sfd_set) => (Unwrap(sfd_set) = trap /\ sup_mask = Unwrap(sfd_set))
        /\ child.st # "unborn" => (trap \subseteq sup_mask /\ child_mask \cap trap = {})

\* A run that has returned with the signal fd open and the trap set blocked.
C16_Witness ==
    /\ pc = "done"
    /\ IsSome(sfd_set)
    /\ SIGCHLD \in sup_mask
    /\ SIGTERM \in sup_mask
    /\ child.st = "reaped"
    /\ child_mask = {}

\* C17: use_pgroup is false when group kill is not requested; when it is,
\* setpgid success gives true, EACCES gives true exactly when the child leads
\* its own group, ESRCH and any other error give false; no outcome is an
\* error of the run.
ManageReturns == pc = "pgroup_ret" /\ pc' # "pgroup_ret"

C17_PgroupOutcomes ==
    [][ManageReturns =>
          /\ pc' = "poll"
          /\ error' = None
          /\ ~pgroup_kill => ~use_pgroup'
          /\ pgroup_kill => setpgid_res \in {"ok", "EACCES", "ESRCH", "EPERM"}
          /\ (pgroup_kill /\ setpgid_res = "ok") => use_pgroup'
          /\ (pgroup_kill /\ setpgid_res = "EACCES") => (use_pgroup' <=> child.leader)
          /\ (pgroup_kill /\ setpgid_res \in {"ESRCH", "EPERM"}) => ~use_pgroup']_vars

\* Group kill was requested and given up without an error, nothing was sent,
\* and the run has ended with the child's exit code.
C17_Witness ==
    /\ pgroup_kill
    /\ ~use_pgroup
    /\ error = None
    /\ n_sent = 0
    /\ pc = "done"
    /\ expect_zero = {}
    /\ exit_code = Some(3)

\* C18: after a failed execvp the child has written
\* "tino: execvp failed for <arg0> (errno <n>)" with n in decimal, has exited
\* with 127, and the supervisor returns 127, or 0 if 127 is remapped.
ErrnoText == IF exec_errno = 2 THEN <<50>> ELSE <<49, 51>>

C18_ExecFailure ==
    exec_errno # 0 =>
        /\ child.st \in {"zombie", "reaped"} =>
              /\ stderr = <<"tino: execvp failed for ", cmd[1], " (errno ", ErrnoText, ")", "\n">>
              /\ child.status = Exited(127)
        /\ pc = "done" => exit_code = Some(IF 127 \in expect_zero THEN 0 ELSE 127)

\* execvp failed with errno 13 and the run has returned 127.
C18_Witness ==
    /\ exec_errno = 13
    /\ expect_zero = {}
    /\ stderr # <<>>
    /\ pc = "done"
    /\ exit_code = Some(127)

\* C19: with a NUL byte in any argument the run fails before the fork: no
\* child exists, nothing is sent, the loop is not entered.
BeforeFork == {"prctl", "sigblock", "sigfd", "session", "prepare", "fatal"}

C19_NulBeforeFork ==
    (\E i \in 1..Len(cmd) : HasNul(cmd[i])) =>
        /\ pc \in BeforeFork
        /\ child.st = "unborn"
        /\ n_sent = 0
        /\ exit_code = None

\* The second argument holds a NUL byte and prepare_command has failed.
C19_Witness ==
    /\ Len(cmd) = 2
    /\ ~HasNul(cmd[1])
    /\ HasNul(cmd[2])
    /\ pc = "fatal"
    /\ error = Some("prepare command")

\* C20: EPERM on the subreaper request is not an error (the outcome reports
\* the subreaper as disabled and the run goes on); any other subreaper
\* failure and any parent-death-signal failure ends the run before the fork.
C20_PrctlFailures ==
    /\ prctl_res.sub = "EPERM" =>
          /\ ~prctl_outcome.subreaper_enabled
          /\ error # Some("prctl SUBREAPER")
          /\ pc # "prctl"
    /\ prctl_res.sub = "EINVAL" =>
          /\ pc = "fatal"
          /\ error = Some("prctl SUBREAPER")
          /\ child.st = "unborn"
    /\ prctl_res.pd = "EPERM" =>
          /\ pc = "fatal"
          /\ error = Some("prctl P_DEATHSIG")
          /\ child.st = "unborn"

\* The subreaper request was denied and the child was supervised to its exit.
C20_Witness ==
    /\ subreaper
    /\ prctl_res.sub = "EPERM"
    /\ pc = "done"
    /\ child.st = "reaped"
    /\ exit_code = Some(3)

\* What run_impl has not done yet: no prctl call, no change of the signal
\* mask, no signal fd, no fork.
NothingStarted ==
    /\ prctl_res = [pd |-> "none", sub |-> "none"]
    /\ prctl_outcome = NoOutcome
    /\ sup_mask = {}
    /\ sfd_set = None
    /\ child.st = "unborn"

\* C21: a run without a command and without the license flag ends, in every
\* build configuration, with the error "missing CMD" that the caller turns
\* into exit status 1, and nothing of run_impl (prctl, signal mask, fork) has
\* happened by then.
C21_MissingCommandIsError ==
    (cmd = <<>> /\ ~license /\ pc \notin {"parse", "run"}) =>
        /\ pc = "fatal"
        /\ error = Some("missing CMD (use --help)")
        /\ NothingStarted

\* C22: with the license flag set, run prints the license and returns 0,
\* whether or not a command was given; the overrides of the environment are
\* not applied, and no prctl call, change of the signal mask or fork happens.
C22_LicenseFirst ==
    /\ [](license => (pc \in {"parse", "run", "done"} /\ env_log = NoEnvLog /\ NothingStarted))
    /\ [][(pc = "run" /\ license) =>
            /\ pc' = "done"
            /\ exit_code' = Some(0)
            /\ stdout' = <<LICENSE_TEXT>>
            /\ UNCHANGED <<subreaper, pgroup_kill, verbosity>>]_vars

C22_Witness ==
    /\ license
    /\ pc = "done"
    /\ cmd = <<>>
    /\ IsSome(subreaper_env)
    /\ Unwrap(subreaper_env).means = "true"
    /\ ~subreaper
    /\ stdout = <<LICENSE_TEXT>>

\* What one boolean override does to its flag and to the log.
NoInvalidEntry(name, invalid) == \A i \in DOMAIN invalid : invalid[i][1] # name

FlagOverridden(env, before, after, logged, name, invalid) ==
    IF IsNone(env)
    THEN after = before /\ logged = None /\ NoInvalidEntry(name, invalid)
    ELSE CASE Unwrap(env).means = "true" ->
                after = TRUE /\ logged = Some(TRUE) /\ NoInvalidEntry(name, invalid)
           [] Unwrap(env).means = "false" ->
                after = FALSE /\ logged = Some(FALSE) /\ NoInvalidEntry(name, invalid)
           [] OTHER ->
                /\ after = before
                /\ logged = None
                /\ \E i \in DOMAIN invalid : invalid[i] = <<name, Unwrap(env).raw>>

\* C23: a boolean override whose trimmed value is 1, true, yes or on (in any
\* letter case) sets its flag, one whose trimmed value is 0, false, no or off
\* clears it, whatever the command line said; every other value, empty and
\* whitespace-only ones included, leaves the flag as it was and is recorded
\* as an invalid override.
C23_BooleanOverrides ==
    [][(pc = "run" /\ ~license) =>
        /\ FlagOverridden(subreaper_env, subreaper, subreaper', env_log'.subreaper_env,
                          "TINI_SUBREAPER", env_log'.invalid_flags)
        /\ FlagOverridden(pgroup_env, pgroup_kill, pgroup_kill', env_log'.pgroup_env,
                          "TINI_KILL_PROCESS_GROUP", env_log'.invalid_flags)]_vars

C23_Witness ==
    /\ pc = "sigblock"
    /\ IsSome(subreaper_env)
    /\ Unwrap(subreaper_env).raw = <<" ", "O", "f", "F", " ">>
    /\ env_log.subreaper_env = Some(FALSE)
    /\ ~subreaper
    /\ env_log.invalid_flags = << <<"TINI_KILL_PROCESS_GROUP", <<"2">> >> >>
    /\ pgroup_kill

\* C24: TINI_VERBOSITY is looked at only when the -v count is 0; a value that
\* is an integer from 0 to 3 becomes the verbosity; a value out of that range
\* (4, 200) or not a number leaves the verbosity as it was and is recorded as
\* a warning.
C24_VerbosityOverride ==
    [][(pc = "run" /\ ~license) =>
        IF verbosity # 0 \/ IsNone(verbosity_env)
        THEN /\ verbosity' = verbosity
             /\ env_log'.verbosity_env = None
             /\ env_log'.verbosity_error = None
        ELSE IF Unwrap(verbosity_env).kind = "level"
        THEN /\ verbosity' = Unwrap(verbosity_env).level
             /\ env_log'.verbosity_env = Some(Unwrap(verbosity_env).level)
             /\ env_log'.verbosity_error = None
        ELSE /\ verbosity' = verbosity
             /\ IsSome(env_log'.verbosity_error)]_vars

\* C25: the canonical name of every spelling of a catalog name (with or
\* without the SIG prefix, in any letter case, between whitespace) is that
\* name, the canonical name of a canonical name is itself, and a value that
\* is no name of the catalog, the empty one included, has none.
C25_CanonicalIdempotent ==
    IsSome(canon) =>
        /\ Unwrap(canon).first = Unwrap(pdeath_raw).token
        /\ IsSome(Unwrap(canon).first) => Unwrap(canon).second = Unwrap(canon).first

C25_Witness ==
    /\ IsSome(canon)
    /\ Unwrap(pdeath_raw).raw = <<" ", "S", "i", "G", "t", "E", "r", "M", "\t", "\n">>
    /\ Unwrap(canon).first = Some(<<"T", "E", "R", "M">>)
    /\ Unwrap(canon).second = Some(<<"T", "E", "R", "M">>)

\* configure_prctl has returned, with a result or with an error.
PrctlReturned ==
    \/ pc \in {"sigblock", "sigfd", "session", "prepare", "spawn", "pgroup"}
    \/ pc = "fatal" /\ error \in {Some("invalid signal"), Some("prctl P_DEATHSIG"),
                                  Some("prctl SUBREAPER")}

\* C26: the parser of -p accepts a value exactly when the value has a
\* canonical name, and then yields "SIG" followed by that name; the lookup of
\* configure_prctl resolves what it yields to the signal of the value as it
\* was given, and never answers "invalid signal".
C26_ParsedSignalResolves ==
    (IsSome(pdeath_raw) /\ IsSome(canon) /\ pc # "parse") =>
        /\ pc = "usage" <=> IsNone(Unwrap(canon).first)
        /\ pc # "usage" => pdeath = Some(SigPrefix \o Unwrap(Unwrap(canon).first))
        /\ error # Some("invalid signal")
        /\ PrctlReturned => (IsSome(pdeath_sig) /\ pdeath_sig = Unwrap(canon).sig)

C26_Witness ==
    /\ pc = "spawn"
    /\ IsSome(canon)
    /\ Unwrap(pdeath_raw).raw = <<"u", "s", "r", "1", "\t", "\n">>
    /\ pdeath = Some(<<"S", "I", "G", "U", "S", "R", "1">>)
    /\ pdeath_sig = Some(SIGUSR1)
    /\ prctl_outcome.pdeath_set

\* C27: the deadline check of an iteration sends the forced kill exactly
\* when shutdown_deadline is set, sigkill_sent is false, main_exit is unset
\* and the clock has reached the deadline; the kill goes to the group when
\* use_pgroup holds and to the child's pid otherwise, sigkill_sent becomes
\* true in the same step, and no such kill is sent once main_exit is set.
C27_DeadlineCheck ==
    [][/\ (pc = "deadline" /\ pc' # "deadline") =>
            IF /\ IsSome(shutdown_deadline)
               /\ ~sigkill_sent
               /\ IsNone(main_exit)
               /\ now >= Unwrap(shutdown_deadline)
            THEN /\ n_sent' = n_sent + 1
                 /\ last_send' = Some([sig |-> SIGKILL, group |-> use_pgroup, src |-> "deadline"])
                 /\ sigkill_sent'
            ELSE UNCHANGED <<n_sent, last_send, sigkill_sent>>
       /\ DeadlineKillSent => (pc = "deadline" /\ IsNone(main_exit))]_vars

C27_Witness ==
    /\ pc = "poll"
    /\ use_pgroup
    /\ sigkill_sent
    /\ IsNone(main_exit)
    /\ now = Unwrap(shutdown_deadline)
    /\ grace_ms = 1
    /\ last_send = Some([sig |-> SIGKILL, group |-> TRUE, src |-> "deadline"])

\* C28: shutdown_deadline is armed, and the forced kill of the loop is sent,
\* only while use_pgroup is true: after a downgrade of the group kill a
\* drained TERM, INT or QUIT arms nothing.
C28_ArmOnlyWithGroup ==
    (IsSome(shutdown_deadline) \/ sigkill_sent) => use_pgroup

\* C29: poll is entered with the time remaining to the deadline (0 when it
\* has passed) exactly when shutdown_deadline is set, sigkill_sent is false
\* and main_exit is unset, and without a timeout in every other state; so
\* poll has run out by the deadline whether or not a signal is pending, and
\* an armed deadline leads to the forced kill, to the main child's exit or to
\* an error of the loop without another signal arriving.
C29_PollTimeout ==
    /\ [](pc = "poll" =>
            /\ poll_timeout =
                  IF IsSome(shutdown_deadline) /\ ~sigkill_sent /\ IsNone(main_exit)
                  THEN Some(Max(0, Unwrap(shutdown_deadline) - poll_start))
                  ELSE None
            /\ (DeadlineRunning /\ now >= Unwrap(shutdown_deadline)) => PollExpired)
    /\ (pc = "poll" /\ DeadlineRunning) ~> (sigkill_sent \/ IsSome(main_exit) \/ pc = "fatal")

C29_Witness ==
    /\ pc = "poll"
    /\ DeadlineRunning
    /\ pending = {}
    /\ poll_timeout = Some(1)
    /\ now = Unwrap(shutdown_deadline)
    /\ PollExpired

\* C30: after the loop, with use_pgroup, SIGTERM goes to the group first;
\* SIGKILL goes to the group only after that, and only when the first wait
\* of at most grace_ms ended with descendants left; one more wait of at most
\* grace_ms follows and the exit code is returned.  When the first wait has
\* reaped every descendant, no forced kill is sent after the loop.
PostTermSent ==
    /\ n_sent' = n_sent + 1
    /\ Unwrap(last_send').src = "term"

PostKillSent ==
    /\ n_sent' = n_sent + 1
    /\ Unwrap(last_send').src = "postkill"

C30_PostLoopOrder ==
    [][/\ (pc = "post" /\ pc' # "post" /\ use_pgroup) => PostTermSent
       /\ PostTermSent =>
            /\ pc = "post" /\ use_pgroup
            /\ last_send' = Some([sig |-> SIGTERM, group |-> TRUE, src |-> "term"])
            /\ pc' = "wfc" /\ wfc_round' = 1 /\ wfc_start' = now
       /\ PostKillSent =>
            /\ pc = "wfc" /\ wfc_round = 1 /\ use_pgroup
            /\ Unwrap(last_send).src = "term"
            /\ HasChildren /\ Zombies = {}
            /\ now = wfc_start + grace_ms
            /\ last_send' = Some([sig |-> SIGKILL, group |-> TRUE, src |-> "postkill"])
            /\ pc' = "wfc" /\ wfc_round' = 2 /\ wfc_start' = now
       /\ (pc = "wfc" /\ wfc_round = 1 /\ ~HasChildren /\ pc' # "wfc") =>
            (pc' = "done" /\ exit_code' = final_exit /\ n_sent' = n_sent)
       /\ (pc = "wfc" /\ wfc_round = 1 /\ pc' = "done") => ~HasChildren
       /\ (pc = "wfc" /\ wfc_round = 2 /\ pc' \notin {"wfc", "wfc_sleep"}) =>
            (pc' = "done" /\ exit_code' = final_exit /\ n_sent' = n_sent)
       /\ pc' \in {"wfc", "wfc_sleep"} => (wfc_round' <= 2 /\ now' <= wfc_start' + grace_ms)]_vars

C30_Witness ==
    /\ pc = "done"
    /\ use_pgroup
    /\ wfc_round = 2
    /\ grace_ms = 1
    /\ last_send = Some([sig |-> SIGKILL, group |-> TRUE, src |-> "postkill"])
    /\ exit_code = final_exit

\* The runs with and without -w, started with an empty remap set.
InitWarn ==
    /\ InitBody
    /\ expect_zero = {}
    /\ warn_on_reap \in BOOLEAN
    /\ host_refuses = FALSE
    /\ child_steps = FALSE
    /\ child_at = "none"

SpecWarn == InitWarn /\ [][Next]_vars

\* C31: after the loop, with use_pgroup not set, the supervisor sends no
\* signal; it only reaps the children that have terminated, logging each as a
\* secondary reap, at warn level with -w and at debug level without, and it
\* returns the exit code when no child is left or grace_ms has elapsed,
\* whether or not live descendants remain.
C31_NoPgroupPostLoop ==
    [][(pc \in {"post", "wfc", "wfc_sleep"} /\ ~use_pgroup) =>
         /\ n_sent' = n_sent /\ last_send' = last_send
         /\ child'.killed = child.killed
         /\ pc' \in {"wfc", "wfc_sleep"} => wfc_round' = 0
         /\ \A z \in Zombies : z \notin Zombies' =>
               /\ pc = "wfc" /\ pc' = "wfc"
               /\ last_step'.log =
                     Some([level |-> IF warn_on_reap THEN "warn" ELSE "debug",
                           msg |-> "reaped secondary PID", arg |-> ZombiePid(z)])
         /\ (pc = "wfc" /\ pc' \notin {"wfc", "wfc_sleep"}) =>
               /\ pc' = "done" /\ exit_code' = final_exit
               /\ Zombies = {}
               /\ ~HasChildren \/ grace_ms = 0 \/ now - wfc_start >= grace_ms
         /\ pc' \in {"wfc", "wfc_sleep"} => now' <= wfc_start' + grace_ms]_vars

\* With -w and without use_pgroup, the wait after the loop has just reaped a
\* secondary child and logged it at warn level; nothing has been sent.
C31_Witness ==
    /\ pc = "wfc"
    /\ ~use_pgroup
    /\ pgroup_kill
    /\ warn_on_reap
    /\ wfc_round = 0
    /\ n_sent = 0
    /\ grace_ms = 1
    /\ \E i \in Slots :
          /\ others[i].st = "reaped"
          /\ last_step.log = Some([level |-> "warn", msg |-> "reaped secondary PID",
                                    arg |-> others[i].pid])


\* C32: a poll interrupted by EINTR restarts the iteration: main_exit,
\* shutdown_deadline and sigkill_sent are unchanged, nothing is sent, and
\* when the armed deadline has passed the new poll has a zero timeout, so the
\* deadline check follows.  Any other poll error ends the run with the error
\* "poll" and without an exit code.
PollFailedWith(e) ==
    /\ pc = "poll"
    /\ last_step'.poll = e
    /\ UNCHANGED kernvars

C32_PollErrors ==
    [][/\ PollFailedWith("EINTR") =>
            /\ pc' = "poll"
            /\ error' = error
            /\ main_exit' = main_exit
            /\ shutdown_deadline' = shutdown_deadline
            /\ sigkill_sent' = sigkill_sent
            /\ n_sent' = n_sent /\ last_send' = last_send
            /\ poll_start' = now
            /\ (DeadlineRunning /\ now >= Unwrap(shutdown_deadline)) =>
                  (poll_timeout' = Some(0) /\ PollExpired')
       /\ (\E e \in PollErrnos \ {"EINTR"} : PollFailedWith(e)) =>
            /\ pc' = "fatal"
            /\ error' = Some("poll")
            /\ exit_code' = None /\ final_exit' = None
            /\ n_sent' = n_sent
       /\ pc = "fatal" => (pc' = "fatal" /\ exit_code' = None)]_vars

\* A poll whose armed deadline has passed was interrupted and restarted with
\* a zero timeout.
C32_Witness ==
    /\ pc = "poll"
    /\ last_step.poll = "EINTR"
    /\ DeadlineRunning
    /\ now >= Unwrap(shutdown_deadline)
    /\ poll_timeout = Some(0)
    /\ pending = {}
    /\ error = None


\* The runs on a host that may refuse a kill with EPERM.
InitRefuse ==
    /\ InitBody
    /\ expect_zero = {}
    /\ warn_on_reap = FALSE
    /\ host_refuses = TRUE
    /\ child_steps = FALSE
    /\ child_at = "none"

SpecRefuse == InitRefuse /\ [][Next]_vars

\* C33: a send that fails never stops supervision.  ESRCH is logged nowhere,
\* any other failure is logged as a warning and nothing else; the run does not
\* become fatal, main_exit is unchanged, a forward still arms the deadline
\* under the arming condition of the loop and goes on draining, and the
\* in-loop forced kill still sets sigkill_sent and goes back to poll.
SendInStep == n_sent' = n_sent + 1

C33_FailedSend ==
    [][SendInStep =>
         LET send == Unwrap(last_send')
         IN  /\ last_step'.kill \in {"ok", "ESRCH", "EPERM"}
             /\ last_step'.kill \in {"ok", "ESRCH"} => last_step'.log = None
             /\ last_step'.kill = "EPERM" =>
                   last_step'.log = Some([level |-> "warn", msg |-> "forward failed",
                                          arg |-> send.sig])
             /\ last_step'.kill # "ok" => (child' = child /\ others' = others)
             /\ pc' # "fatal" /\ error' = error /\ main_exit' = main_exit
             /\ send.src = "forward" =>
                   /\ pc = "drain" /\ pc' = "drain"
                   /\ sigkill_sent' = sigkill_sent
                   /\ shutdown_deadline' =
                         IF /\ pgroup_kill /\ send.sig \in {SIGTERM, SIGINT, SIGQUIT}
                            /\ IsNone(main_exit) /\ ~sigkill_sent
                         THEN IF IsNone(shutdown_deadline) THEN Some(now + grace_ms)
                              ELSE Some(now)
                         ELSE shutdown_deadline
             /\ send.src = "deadline" =>
                   /\ pc = "deadline" /\ pc' = "poll"
                   /\ sigkill_sent' /\ poll_timeout' = None
                   /\ shutdown_deadline' = shutdown_deadline
             /\ send.src \in {"term", "postkill"} => pc' = "wfc"]_vars

\* The forward of a termination signal was refused with EPERM and logged;
\* the deadline is armed and the drain loop goes on.
C33_Witness ==
    /\ pc = "drain"
    /\ last_step.kill = "EPERM"
    /\ IsSome(last_step.log)
    /\ IsSome(last_send) /\ Unwrap(last_send).src = "forward"
    /\ grace_ms = 1
    /\ shutdown_deadline = Some(now + grace_ms)
    /\ ~child.killed
    /\ IsNone(main_exit)


\* A number that Signal::try_from rejects: the first real-time signal.
UnknownSigno == 34

\* The signal fd yields a record that carries UnknownSigno.
UnknownRecord ==
    /\ InLoop
    /\ IsSome(sfd_set)
    /\ UnknownSigno \notin pending
    /\ pending' = pending \cup {UnknownSigno}
    /\ UNCHANGED <<cfgvars, hostvars, last_step, clivars, sigvars, bootvars, tracevars, supvars, now, child, others, histvars>>

\* The runs in which the signal fd may yield a record of an unknown number.
InitUnknown == Init /\ expect_zero = {}

NextUnknown == Next \/ UnknownRecord

SpecUnknown == InitUnknown /\ [][NextUnknown]_vars

\* C34: when the drain loop reads a record whose number is no signal of the
\* Signal enum, it logs a warning and reads the next record: nothing is sent,
\* no process is touched, and main_exit, shutdown_deadline and sigkill_sent
\* stay as they are.
C34_UnknownRecordIgnored ==
    [][\A signo \in pending \ pending' :
          signo \notin 1..31 =>
             /\ pc = "drain" /\ pc' = "drain"
             /\ n_sent' = n_sent /\ last_send' = last_send
             /\ n_forwarded' = n_forwarded
             /\ child' = child /\ others' = others
             /\ main_exit' = main_exit
             /\ shutdown_deadline' = shutdown_deadline
             /\ sigkill_sent' = sigkill_sent
             /\ error' = error
             /\ last_step'.log = Some([level |-> "warn",
                                       msg |-> "received unexpected signal",
                                       arg |-> signo])]_vars

\* The unknown record has just been dropped with a warning while a
\* termination signal of the same batch is still to be read.
C34_Witness ==
    /\ pc = "drain"
    /\ last_step.log = Some([level |-> "warn", msg |-> "received unexpected signal",
                              arg |-> UnknownSigno])
    /\ SIGTERM \in pending
    /\ n_sent = 0
    /\ child.st = "running"


\* The runs with and without -g in which the supervisor keeps taking steps
\* and time passes.
InitLive == Init /\ expect_zero = {}

LiveSpec == InitLive /\ [][Next]_vars /\ WF_vars(Progress) /\ WF_vars(Tick)

\* C35: once the main child has terminated, were it before the first poll,
\* the run ends without another external signal: either with a fatal error,
\* or with main_exit recorded and the exit code computed from it returned.
C35_TerminationReturns ==
    (child.st = "zombie") ~>
        ( \/ pc = "fatal"
          \/ /\ pc = "done"
             /\ IsSome(main_exit)
             /\ child.st = "reaped"
             /\ exit_code = Some(Unwrap(main_exit)) )

\* The main child is dead before the supervisor has set up the process
\* group, and its SIGCHLD is waiting in the signal fd.
C35_Witness ==
    /\ pc = "pgroup"
    /\ child.st = "zombie"
    /\ pending = {SIGCHLD}
    /\ IsNone(main_exit)


\* C36: the loop is left, the final exit code computed and an exit code
\* returned only with main_exit set by a reaped termination of the main
\* child's pid; the loop is left from its termination test only, so neither
\* a secondary reap, a forward, a stop report, the deadline's expiry nor the
\* in-loop forced kill ends it while main_exit is unset.
AfterLoop == pc \in {"post", "wfc", "wfc_sleep", "done"}

C36_LoopLeftAfterExit ==
    /\ [](AfterLoop => (IsSome(main_exit) /\ child.st = "reaped"))
    /\ [](IsSome(final_exit) => (AfterLoop /\ IsSome(main_exit)))
    /\ [](IsSome(exit_code) => (pc = "done" /\ IsSome(main_exit)))
    /\ [](IsSome(main_exit) =>
            (child.st = "reaped" /\ main_exit = Some(StatusCode(child.status))))
    /\ [][(~AfterLoop /\ AfterLoop') =>
            (pc = "deadline" /\ pc' = "post" /\ IsSome(main_exit))]_vars

\* The loop has just been left after a forward, the forced kill and the reap
\* of the killed main child.
C36_Witness ==
    /\ pc = "post"
    /\ sigkill_sent
    /\ n_forwarded >= 1
    /\ main_exit = Some(137)
    /\ child.st = "reaped"
    /\ IsNone(final_exit)


\* C37: without -g no deadline is ever set, poll never gets a timeout, and
\* the supervisor sends nothing but forwards: no SIGKILL and no SIGTERM of
\* its own, in the loop or after it.  A main child that outlives the
\* forwarded termination signals is never killed by the supervisor, and the
\* supervisor does not leave the loop while that child runs.
C37_NoGroupKillNoEscalation ==
    [](~pgroup_kill =>
          /\ IsNone(shutdown_deadline) /\ IsNone(first_deadline)
          /\ IsNone(poll_timeout)
          /\ ~sigkill_sent
          /\ ~use_pgroup
          /\ wfc_round = 0
          /\ ~child.killed
          /\ \A i \in Slots : ~others[i].killed
          /\ IsSome(last_send) =>
                /\ Unwrap(last_send).src = "forward"
                /\ Unwrap(last_send).sig \in ExtSignals
                /\ ~Unwrap(last_send).group
          /\ n_sent = n_forwarded
          /\ child.st \in {"running", "zombie"} => ~AfterLoop)

\* Without -g the main child has outlived the forwarded termination signal:
\* the supervisor is back in poll with no timeout and no deadline.
C37_Witness ==
    /\ ~pgroup_kill
    /\ pc = "poll"
    /\ pending = {}
    /\ IsSome(first_forward)
    /\ n_forwarded = MaxDrained
    /\ child.st = "running"
    /\ IsNone(poll_timeout)


\* The runs in which the kernel may recycle the main child's pid and the
\* host may refuse a kill.
InitFixed ==
    /\ InitBody
    /\ warn_on_reap = FALSE
    /\ host_refuses = TRUE
    /\ child_steps = FALSE
    /\ child_at = "none"

SpecFixed == InitFixed /\ [][NextRecycle]_vars

\* C38: the exit code is fixed by the step that leaves the loop: final_exit
\* is computed from main_exit there, before anything is sent or reaped after
\* the loop; no later step changes main_exit or final_exit, whatever is
\* reaped (a record with the main child's pid included) and whatever a send
\* returns; and the code returned is that final_exit.
C38_ExitCodeFixed ==
    /\ [][(pc = "post" /\ pc' # "post") =>
            final_exit' =
               Some(IF (Unwrap(main_exit) % 256) \in expect_zero THEN 0
                    ELSE Unwrap(main_exit))]_vars
    /\ [][(pc \in {"wfc", "wfc_sleep", "done"}) =>
            (final_exit' = final_exit /\ main_exit' = main_exit)]_vars
    /\ [][(pc # "done" /\ pc' = "done") => exit_code' = final_exit]_vars
    /\ [](pc = "done" => (IsSome(exit_code) /\ exit_code = final_exit))

\* The run has returned the main child's code 3 although, after the loop, a
\* process carrying the main child's pid was reaped and the forced kill was
\* sent.
C38_Witness ==
    /\ pc = "done"
    /\ exit_code = Some(3)
    /\ main_exit = Some(3)
    /\ wfc_round = 2
    /\ \E i \in Slots : others[i].pid = ChildPid /\ others[i].st = "reaped"


\* The runs in which the forked child's steps before execvp are followed one
\* by one, interleaved with the supervisor's.
InitChild ==
    /\ InitBody
    /\ expect_zero = {}
    /\ warn_on_reap = FALSE
    /\ host_refuses = FALSE
    /\ child_steps = TRUE
    /\ child_at = "none"

NextChild == Next \/ ChildSetpgid \/ ChildUnblock \/ ChildExec

SpecChild == InitChild /\ [][NextChild]_vars

\* C39: the forked child goes through setpgid(0, 0), the unblocking of the
\* trap set and execvp in this order and then is either the command or a
\* process that has exited: no step of it touches the supervisor's state.
\* A failed setpgid is written to standard error and the child goes on; a
\* failed unblock is written and the child exits with 1 without calling
\* execvp; a failed execvp exits with 127; the command starts with the trap
\* set unblocked.
ChildPath ==
    {<<"none", "setpgid">>, <<"setpgid", "unblock">>, <<"unblock", "exec">>,
     <<"unblock", "exited">>, <<"exec", "cmd">>, <<"exec", "exited">>}

C39_ChildExecsOrExits ==
    /\ [][child_at' # child_at =>
            /\ <<child_at, child_at'>> \in ChildPath
            /\ child_at # "none" =>
                  UNCHANGED <<supvars, histvars, others, sup_mask, sfd_set, error, last_step>>
            /\ child_at = "setpgid" =>
                  /\ child'.st = "running"
                  /\ \/ child'.leader /\ stderr' = stderr
                     \/ /\ child' = child
                        /\ stderr' = Append(stderr,
                              "tino: failed to establish child process group\n")
            /\ <<child_at, child_at'>> = <<"unblock", "exec">> =>
                  (child_mask' = child_mask \ (FORWARDED_SIGNALS \cup {SIGCHLD})
                   /\ child' = child /\ stderr' = stderr)
            /\ <<child_at, child_at'>> = <<"unblock", "exited">> =>
                  /\ child'.st = "zombie" /\ child'.status = Exited(1)
                  /\ stderr' = Append(stderr,
                         "tino: failed to restore signal mask in child\n")
                  /\ exec_errno' = exec_errno
            /\ <<child_at, child_at'>> = <<"exec", "cmd">> =>
                  (child'.st = "running" /\ stderr' = stderr)
            /\ <<child_at, child_at'>> = <<"exec", "exited">> =>
                  (child'.st = "zombie" /\ child'.status = Exited(127))]_vars
    /\ [](child_at = "cmd" => child_mask \cap (FORWARDED_SIGNALS \cup {SIGCHLD}) = {})
    /\ [](child_at = "exited" => child.st \in {"zombie", "reaped"})
    /\ []((child_at \in {"setpgid", "unblock", "exec"} /\ ~child.killed) =>
            child.st = "running")

\* Both the group change and the unblocking failed in the child: it has
\* written the two lines and exited with 1, execvp not called.
C39_Witness ==
    /\ child_at = "exited"
    /\ child.status = Exited(1)
    /\ ~child.leader
    /\ Len(stderr) = 2
    /\ exec_errno = 0
    /\ child_mask # {}

\* C40: however the child's setpgid(0, 0), execvp and exit interleave with
\* the parent's setpgid(child, child), manage_process_group returns true only
\* when the child leads the group numbered by its pid, use_pgroup stays true
\* only for such a child, and every send addressed to the group is made with
\* use_pgroup true for that group.
C40_GroupLedByChild ==
    /\ [][ManageReturns =>
            (use_pgroup' => (pgroup_kill /\ child.leader /\ child.st # "unborn"))]_vars
    /\ [](use_pgroup => child.leader)
    /\ [][(SendInStep /\ Unwrap(last_send').group) => (use_pgroup /\ child.leader)]_vars

\* The command had been started, and had exited, before the parent's setpgid:
\* the parent found the zombie leading its own group, kept use_pgroup, and
\* has forwarded a signal to that group.
C40_Witness ==
    /\ use_pgroup
    /\ child.leader
    /\ child_at = "cmd"
    /\ child.st = "zombie"
    /\ stderr = <<>>
    /\ IsSome(last_send) /\ Unwrap(last_send).group
    /\ IsNone(main_exit)


====
